---- MODULE Spec2Model ----
(***************************************************************************)
(* A model of the go-couch client library: the retrying HTTP transport     *)
(* (requests.go), the service handle (couch_service.go), the database      *)
(* handle (database.go) and the helpers of utils.go, run against a small   *)
(* model of the remote document store.                                     *)
(*                                                                         *)
(* Every caller p of Procs runs one operation.  An operation is a sequence *)
(* of transport calls (makeRequest); a transport call is a sequence of     *)
(* attempts (client.Do) separated by delays (time.Sleep).                  *)
(***************************************************************************)
EXTENDS Integers, Sequences, FiniteSets, TLC

\* ------------------------------------------------------------------ bounds

\* The largest maxRetries a directly constructed transport is given.
MaxRetriesBound == 3
\* The largest revision number a document of the initial store has.
MaxRev == 2
\* The largest number of further calls a caller of CreateDesignDoc makes.
MaxMoreCalls == 1
\* The longest text handed to isValidDBName and to addSlashIfNeeded.
MaxNameLen == 2

\* ------------------------------------------------------- program constants

\* couch_service.go:43  NewCustomHTTPClient(c.baseURL, 5, 2*time.Second, 30*time.Second)
GetDBMaxRetries == 5
GetDBRetryWait == 2
GetDBTimeout == 30

\* The callers.  Only the callers an initial state gives an operation act.
Procs == {"c1", "c2"}

\* ------------------------------------------------------------------ values

\* A response or request body: nothing at all (Go's nil []byte), an empty
\* body, or a JSON object (a function from keys to values).
NilBody == [raw |-> "nil", obj |-> <<>>]
EmptyBody == [raw |-> "empty", obj |-> <<>>]
JSONBody(o) == [raw |-> "json", obj |-> o]

\* A value json.Marshal cannot encode (a channel, a function value).
Unmarshalable == [kind |-> "chan"]

\* Go's nil interface value, as the body argument of makeRequest.
NilValue == [kind |-> "nil"]

\* A map[string]interface{} holding the JSON object o.
MapValue(o) == [kind |-> "map", m |-> o]

\* Go's bool as a returned value.
Bool(b) == [kind |-> "bool", b |-> b]

\* A map[string]interface{} that is nil.
NilMap == [kind |-> "nilmap"]

\* Errors of the transport layer.  "nil" is no error.
NoErr == "nil"
ErrMarshal == "json: unsupported type"
ErrNet == "connection error"
ErrCtx == "context canceled"
ErrRead == "body read error"

\* Errors of the service and database layers: a message, the error it wraps
\* (%w), and the status code and body it prints (%d - %s).
Err(msg, wraps, code, body) ==
    [msg |-> msg, wraps |-> wraps, code |-> code, body |-> body]
NilErr == Err("nil", NoErr, 0, NilBody)
errorDBNotFound == Err("db not found", NoErr, 0, NilBody)
ErrMissingID == "missing _id field"
ErrMissingRev == "missing _rev field"
ErrUnsupportedType == "unsupported type"

\* errors.go: the named not-found error, and the two tables the package has
\* been built with: codeToError = {400: ErrNotFound} (errors.go:8-10) and
\* codeToError = {404: ErrNotFound} (errors.go:20-22).
ErrNotFound == Err("not found", NoErr, 0, NilBody)
BadRequestTable == [c \in {400} |-> ErrNotFound]
NotFoundTable == [c \in {404} |-> ErrNotFound]
ErrorTables == {BadRequestTable, NotFoundTable}

\* An operation's result when there is none yet.
NoResult == [err |-> NilErr, val |-> NilValue, panic |-> FALSE]

\* What an operation returns: an error and no value, or a value and no error.
Failed(e) == [err |-> e, val |-> NilValue, panic |-> FALSE]
Succeeded(v) == [err |-> NilErr, val |-> v, panic |-> FALSE]

\* errors.Is(e, target): e is target or wraps it.
ErrorsIs(e, target) == e = target \/ e.wraps = target.msg

\* ------------------------------------------------------------- Go types

\* The types of the values a caller hands in as a decoding target: a pointer
\* (nil or not) to an element type, a struct type with the JSON tags of its
\* fields, a map type with its key and element types, a slice type.
PtrTo(elem, isNil) == [kind |-> "ptr", elem |-> elem, isNil |-> isNil]
StructType(tags) == [kind |-> "struct", tags |-> tags]
MapType(key, el) == [kind |-> "map", key |-> key, el |-> el]
SliceType == [kind |-> "slice"]

\* reflect's Kind of the key and element types the model has.
KindOf(t) ==
    CASE t \in {"string", "MyString"} -> "string"
      [] t \in {"interface{}", "error"} -> "interface"
      [] OTHER -> t

\* A response body that is not JSON.
GarbledBody == [raw |-> "garbled", obj |-> <<>>]
ErrSyntax == "invalid character"
ErrInvalidUnmarshal == "json: Unmarshal(nil)"
ErrUnmarshalType == "json: cannot unmarshal"

\* json.Unmarshal(body, target): a nil or non-pointer target is an
\* InvalidUnmarshalError; a struct takes the keys its fields are tagged with;
\* a map[string]interface{} takes every key; a map of another element type
\* cannot take the values.
Unmarshal(body, target) ==
    CASE target.kind # "ptr" -> [err |-> ErrInvalidUnmarshal, val |-> NilValue]
      [] target.kind = "ptr" /\ target.isNil ->
           [err |-> ErrInvalidUnmarshal, val |-> NilValue]
      [] target.kind = "ptr" /\ ~target.isNil /\ body.raw # "json" ->
           [err |-> ErrSyntax, val |-> NilValue]
      [] OTHER ->
           LET o == body.obj
               t == target.elem
           IN
           CASE t.kind = "struct" ->
                  [err |-> NoErr,
                   val |-> MapValue([k \in DOMAIN o \cap t.tags |-> o[k]])]
             [] t.kind = "map" /\ t.el = "interface{}" ->
                  [err |-> NoErr, val |-> MapValue(o)]
             [] t.kind = "map" /\ t.el # "interface{}" /\ DOMAIN o = {} ->
                  [err |-> NoErr, val |-> MapValue(o)]
             [] OTHER -> [err |-> ErrUnmarshalType, val |-> NilValue]

\* ------------------------------------------------------------- utils.go

Lower == {"a", "b", "c", "d", "e", "f", "g", "h", "i", "j", "k", "l", "m",
          "n", "o", "p", "q", "r", "s", "t", "u", "v", "w", "x", "y", "z"}
Digits == {"0", "1", "2", "3", "4", "5", "6", "7", "8", "9"}
NameSpecials == {"_", "$", "(", ")", "+", "/", "-"}

\* A changed pattern without the closing anchor: ^[a-z][a-z0-9_$()+/-]*
isValidDBName_NoEndAnchor(name) ==
    /\ Len(name) >= 1
    /\ name[1] \in Lower

\* A name is a sequence of one-character strings.  The pattern
\* ^[a-z][a-z0-9_$()+/-]*$ is anchored at both ends of the text.
isValidDBName(name) ==
    /\ Len(name) >= 1
    /\ name[1] \in Lower
    /\ \A k \in 2..Len(name) : name[k] \in Lower \cup Digits \cup NameSpecials

\* isValidParam (utils.go:72-89): a pointer, nil or not, whose element is a
\* struct or a map with a key of kind string and an element of kind interface.
isValidParam(param) ==
    IF param.kind = "nil" THEN FALSE
    ELSE IF param.kind # "ptr" THEN FALSE
    ELSE CASE param.elem.kind = "struct" -> TRUE
           [] param.elem.kind = "map" ->
                KindOf(param.elem.key) = "string" /\ KindOf(param.elem.el) = "interface"
           [] OTHER -> FALSE

\* A changed checkParameter whose map case does not look for _rev.
checkParameter_NoRevCheck(param) ==
    CASE param.kind = "map" ->
           IF "_id" \notin DOMAIN param.m THEN ErrMissingID ELSE NoErr
      [] param.kind = "struct" ->
           IF "_id" \notin param.fields THEN ErrMissingID
           ELSE IF "_rev" \notin param.fields THEN ErrMissingRev
           ELSE NoErr
      [] param.kind = "nilmap" -> ErrMissingID
      [] param.kind \in {"nil", "othermap"} -> "panic"
      [] OTHER -> ErrUnsupportedType

\* The kinds reflect.TypeOf(param).Kind() tells apart in checkParameter.  The
\* map case asserts param.(map[string]interface{}): a map of another type
\* panics there, and reflect.TypeOf(nil) is nil, so .Kind() panics on nil.
checkParameter(param) ==
    CASE param.kind = "map" ->
           IF "_id" \notin DOMAIN param.m THEN ErrMissingID
           ELSE IF "_rev" \notin DOMAIN param.m THEN ErrMissingRev
           ELSE NoErr
      [] param.kind = "struct" ->
           IF "_id" \notin param.fields THEN ErrMissingID
           ELSE IF "_rev" \notin param.fields THEN ErrMissingRev
           ELSE NoErr
      [] param.kind = "nilmap" -> ErrMissingID
      [] param.kind \in {"nil", "othermap"} -> "panic"
      [] OTHER -> ErrUnsupportedType

\* The package's other checkParameter (unnamed/part_003:18-47): a struct
\* passes when it embeds Document, reflect.ValueOf(nil).Kind() is Invalid and
\* falls to the default case, and the map case asserts the same type.
ErrMissingDocumentFields == "missing document fields"
checkParameterEmbedded(param) ==
    CASE param.kind = "map" ->
           IF "_id" \notin DOMAIN param.m THEN ErrMissingID
           ELSE IF "_rev" \notin DOMAIN param.m THEN ErrMissingRev
           ELSE NoErr
      [] param.kind = "struct" ->
           IF param.embedsDocument THEN NoErr ELSE ErrMissingDocumentFields
      [] param.kind = "nilmap" -> ErrMissingID
      [] param.kind = "othermap" -> "panic"
      [] OTHER -> ErrUnsupportedType

\* ------------------------------------------------------- the remote store

\* The database the document operations address, a second valid name, a
\* system database (it exists in the store although the client's naming rule
\* rejects its name), and a name that breaks the rule.
DocDB == <<"d", "b">>
OtherDB == <<"d", "1">>
SystemDB == <<"_", "u">>
BadName == <<"D", "b">>
DbNames == {DocDB, OtherDB, SystemDB, BadName}

DocIds == {"x", "y"}

\* The ids the store assigns to documents that are created without one, in
\* the order it assigns them, and the id of the design document "n".
AssignedIds == <<"u1", "u2">>
DesignDocName == "n"
DesignDocID(designDoc) == "_design/" \o designDoc
StoreIds == DocIds \cup {AssignedIds[k] : k \in DOMAIN AssignedIds}
                   \cup {DesignDocID(DesignDocName)}

\* A stored document: its revision (0: there is no such document) and its
\* fields other than _id and _rev.
NoDoc == [rev |-> 0, obj |-> <<>>]
Fields(o) == [k \in DOMAIN o \ {"_id", "_rev"} |-> o[k]]

\* A stored document as the store sends it: its fields, _id and _rev.
Stored(id, doc) ==
    [k \in DOMAIN doc.obj \cup {"_id", "_rev"} |->
        CASE k = "_id" -> id [] k = "_rev" -> doc.rev [] OTHER -> doc.obj[k]]

ErrorBody(e) == JSONBody([error |-> e])
WriteOK(id, rev) == JSONBody([ok |-> TRUE, id |-> id, rev |-> rev])

\* A request on the wire.  The path is the endpoint cut at its slashes:
\* <<db>>, <<db, id>>, <<db, id, "?rev=", rev>>, <<db, id, "_view/" \o view>>.
Request(method, path, body) == [method |-> method, path |-> path, body |-> body]

\* What the store answers to request r in state (D, S), and the state it
\* leaves: [code, body, dbs, docs].  quorum = FALSE makes an accepted write
\* answer 202 instead of 201.
Answer(code, body, D, S) == [code |-> code, body |-> body, dbs |-> D, docs |-> S]

\* The id a document created without one gets: the first unused assigned id,
\* "" when the model's supply is used up.
FreeId(S) ==
    LET free == {k \in DOMAIN AssignedIds : S[AssignedIds[k]].rev = 0} IN
    IF free = {} THEN ""
    ELSE AssignedIds[CHOOSE k \in free : \A j \in free : k <= j]

\* POST /{db}: a new document, under its own _id or under one the store assigns.
StoreCreate(r, D, S, quorum) ==
    LET name == r.path[1]
        o == r.body.obj
    IN
    IF name \notin D THEN Answer(404, ErrorBody("not_found"), D, S)
    ELSE IF r.body.raw # "json" THEN Answer(400, ErrorBody("bad_request"), D, S)
    ELSE LET id == IF "_id" \in DOMAIN o THEN o["_id"] ELSE FreeId(S) IN
         IF id \notin StoreIds THEN Answer(503, ErrorBody("unavailable"), D, S)
         ELSE IF S[id].rev # 0 \/ "_rev" \in DOMAIN o
              THEN Answer(409, ErrorBody("conflict"), D, S)
         ELSE Answer(IF quorum THEN 201 ELSE 202, WriteOK(id, 1), D,
                     [S EXCEPT ![id] = [rev |-> 1, obj |-> Fields(o)]])

StoreDB(r, D, S, quorum) ==
    LET name == r.path[1] IN
    CASE r.method = "HEAD" ->
           Answer(IF name \in D THEN 200 ELSE 404, EmptyBody, D, S)
      [] r.method = "PUT" ->
           IF name \in D THEN Answer(412, ErrorBody("file_exists"), D, S)
           ELSE IF ~(isValidDBName(name) \/ name = SystemDB)
                THEN Answer(400, ErrorBody("illegal_database_name"), D, S)
           ELSE Answer(IF quorum THEN 201 ELSE 202, JSONBody([ok |-> TRUE]),
                       D \cup {name}, S)
      [] r.method = "POST" -> StoreCreate(r, D, S, quorum)
      [] OTHER -> Answer(405, ErrorBody("method_not_allowed"), D, S)

StoreDoc(r, D, S, quorum) ==
    LET name == r.path[1]
        id == r.path[2]
        o == r.body.obj
        given == IF r.body.raw = "json" /\ "_rev" \in DOMAIN o THEN o["_rev"] ELSE 0
    IN
    IF name \notin D \/ id \notin StoreIds THEN Answer(404, ErrorBody("not_found"), D, S)
    ELSE CASE r.method = "PUT" ->
           IF r.body.raw # "json" THEN Answer(400, ErrorBody("bad_request"), D, S)
           ELSE IF "_id" \in DOMAIN o /\ o["_id"] # id
                THEN Answer(400, ErrorBody("bad_request"), D, S)
           ELSE IF given # S[id].rev THEN Answer(409, ErrorBody("conflict"), D, S)
           ELSE Answer(IF quorum THEN 201 ELSE 202, WriteOK(id, S[id].rev + 1), D,
                       [S EXCEPT ![id] = [rev |-> S[id].rev + 1, obj |-> Fields(o)]])
      [] r.method = "GET" ->
           IF S[id].rev = 0 THEN Answer(404, ErrorBody("not_found"), D, S)
           ELSE Answer(200, JSONBody(Stored(id, S[id])), D, S)
      [] r.method = "HEAD" ->
           Answer(IF S[id].rev = 0 THEN 404 ELSE 200, EmptyBody, D, S)
      [] OTHER -> Answer(405, ErrorBody("method_not_allowed"), D, S)

\* DELETE /{db}/{id}?rev={rev}: the document goes when rev is its revision.
StoreDelete(r, D, S, quorum) ==
    LET name == r.path[1]
        id == r.path[2]
        given == r.path[4]
    IN
    IF name \notin D \/ id \notin StoreIds THEN Answer(404, ErrorBody("not_found"), D, S)
    ELSE IF r.method # "DELETE" THEN Answer(405, ErrorBody("method_not_allowed"), D, S)
    ELSE IF S[id].rev = 0 THEN Answer(404, ErrorBody("not_found"), D, S)
    ELSE IF given # S[id].rev THEN Answer(409, ErrorBody("conflict"), D, S)
    ELSE Answer(IF quorum THEN 200 ELSE 202, WriteOK(id, S[id].rev + 1), D,
                [S EXCEPT ![id] = NoDoc])

\* POST /{db}/_design/{design}/_view/{view}: the rows of the view.  The store
\* takes the options from the JSON object of the body.
StoreView(r, D, S, quorum) ==
    LET name == r.path[1]
        id == r.path[2]
    IN
    IF name \notin D \/ id \notin StoreIds THEN Answer(404, ErrorBody("not_found"), D, S)
    ELSE IF r.method # "POST" THEN Answer(405, ErrorBody("method_not_allowed"), D, S)
    ELSE IF S[id].rev = 0 THEN Answer(404, ErrorBody("not_found"), D, S)
    ELSE IF r.body.raw \notin {"json", "null"}
         THEN Answer(400, ErrorBody("bad_request"), D, S)
    ELSE Answer(200, JSONBody([total_rows |-> 0, offset |-> 0, rows |-> <<>>]), D, S)

Store(r, D, S, quorum) ==
    CASE Len(r.path) = 1 -> StoreDB(r, D, S, quorum)
      [] Len(r.path) = 2 -> StoreDoc(r, D, S, quorum)
      [] Len(r.path) = 3 -> StoreView(r, D, S, quorum)
      [] OTHER -> StoreDelete(r, D, S, quorum)

\* ------------------------------------------------------------------ state

VARIABLES
    dbs,           \* the store: the names of the databases that exist
    docs,          \* the store: the documents of database DocDB, by id (StoreIds)
    op,            \* per caller: the operation it runs and its arguments
    pc,            \* per caller: where the operation stands
    result,        \* per caller: what the operation returned
    calls,         \* per caller: the transport calls the operation made, in order
    httpClient,    \* per caller: the CustomHTTPClient the operation uses
    mr,            \* per caller: the running makeRequest (its locals and its return)
    hist,          \* per caller: what happened in the running makeRequest
    sent,          \* per caller: the requests the operation handed to client.Do
    ctxCancelled,  \* per caller: the caller's context is cancelled
    ophist,        \* per caller: what happened in the operation so far
    store0,        \* the store as it was when the run started
    codeToError    \* the package's table from status codes to named errors

vars == <<dbs, docs, op, pc, result, calls, httpClient, mr, hist, sent, ctxCancelled,
          ophist, store0, codeToError>>

\* NewCustomHTTPClient: the configuration is stored as given.
NewCustomHTTPClient(baseURL, maxRetries, retryWait, timeout) ==
    [baseURL |-> baseURL, maxRetries |-> maxRetries,
     retryWait |-> retryWait, timeout |-> timeout]

NoClient == NewCustomHTTPClient("", 0, 0, 0)

\* makeRequest's return values.
Ret(code, body, err) == [code |-> code, body |-> body, err |-> err]

\* No makeRequest is running.
IdleRequest ==
    [pc |-> "idle", req |-> Request("", <<>>, NilBody), i |-> 0,
     respCode |-> 0, respBody |-> NilBody, ret |-> Ret(0, NilBody, NoErr)]

\* What an attempt observed: nothing yet, a failed send, a failed read of the
\* body, or a response.
NoOutcome == [kind |-> "none", code |-> 0, body |-> NilBody, err |-> NoErr]
NoOpHist == [attempts |-> 0, faulted |-> FALSE, conflicted |-> FALSE, served |-> 0]
NoHist == [attempts |-> 0, delays |-> 0, n5xx |-> 0, last |-> NoOutcome]

\* designDocument (database.go:248-261) as json.Marshal encodes it: _id and
\* language always, _rev, views and autoupdate unless empty (omitempty).  The
\* fields CreateDesignDoc leaves empty are all omitempty.  Views is "none" for
\* a nil or empty map, Rev is 0 for the empty string.
designDocumentJSON(v) ==
    LET keys == {"_id", "language"}
                  \cup (IF v.Rev # 0 THEN {"_rev"} ELSE {})
                  \cup (IF v.Views # "none" THEN {"views"} ELSE {})
                  \cup (IF v.Autoupdate THEN {"autoupdate"} ELSE {})
    IN [k \in keys |->
          CASE k = "_id" -> v.ID
            [] k = "_rev" -> v.Rev
            [] k = "language" -> v.Language
            [] k = "views" -> v.Views
            [] OTHER -> v.Autoupdate]

\* json.Marshal of the body argument (requests.go:40-47): nil is not
\* marshalled and sends no body.
Marshal(v) ==
    CASE v.kind = "nil" -> [err |-> NoErr, body |-> NilBody]
      [] v.kind = "map" -> [err |-> NoErr, body |-> JSONBody(v.m)]
      [] v.kind = "nilmap" -> [err |-> NoErr, body |-> [raw |-> "null", obj |-> <<>>]]
      [] v.kind = "int" -> [err |-> NoErr, body |-> [raw |-> "number", obj |-> <<>>]]
      [] v.kind = "designDocument" -> [err |-> NoErr, body |-> JSONBody(designDocumentJSON(v))]
      [] OTHER -> [err |-> ErrMarshal, body |-> NilBody]

\* makeRequest up to its loop (requests.go:37-50): a body that cannot be
\* marshalled returns at once.
EnterRequest(method, endpoint, body) ==
    LET j == Marshal(body) IN
    IF j.err # NoErr
    THEN [IdleRequest EXCEPT !.pc = "done", !.ret = Ret(0, NilBody, j.err)]
    ELSE [IdleRequest EXCEPT !.pc = "loop", !.req = Request(method, endpoint, j.body)]

\* The caller p starts a transport call.
Call(p, method, endpoint, body) ==
    /\ mr' = [mr EXCEPT ![p] = EnterRequest(method, endpoint, body)]
    /\ hist' = [hist EXCEPT ![p] = NoHist]
    /\ calls' = [calls EXCEPT ![p] = Append(@, [method |-> method, path |-> endpoint])]

\* A changed return: exhausted retries reported as an error.
ExitReturn_AsError(m) ==
    IF m.respCode >= 500 THEN Ret(0, NilBody, ErrNet)
    ELSE Ret(m.respCode, m.respBody, NoErr)

\* What makeRequest returns after its loop (requests.go:85).
ExitReturn(m) == Ret(m.respCode, m.respBody, NoErr)

\* The loop's exit by its condition (requests.go:51, 85).
LoopExit(p) ==
    /\ mr[p].pc = "loop"
    /\ ~(mr[p].i < httpClient[p].maxRetries)
    /\ mr' = [mr EXCEPT ![p].pc = "done", ![p].ret = ExitReturn(mr[p])]
    /\ UNCHANGED <<dbs, docs, op, pc, result, calls, httpClient, hist, sent, ctxCancelled,
                   ophist, store0, codeToError>>

\* A changed test of the last attempt: i == c.maxRetries.
AfterSendError_OffByOne(m, maxRetries, err) ==
    IF m.i = maxRetries
    THEN [m EXCEPT !.pc = "done", !.ret = Ret(0, NilBody, err)]
    ELSE [m EXCEPT !.pc = "sleep"]

\* What follows a failed send (requests.go:64-70).
AfterSendError(m, maxRetries, err) ==
    IF m.i = maxRetries - 1
    THEN [m EXCEPT !.pc = "done", !.ret = Ret(0, NilBody, err)]
    ELSE [m EXCEPT !.pc = "sleep"]

\* What follows a failed read of the body (requests.go:73-76).
AfterReadError(m, err) ==
    [m EXCEPT !.pc = "done", !.ret = Ret(0, NilBody, err)]

\* A changed test of the status: only a status below 400 ends the loop.
AfterResponse_Retry4xx(m, code, body) ==
    IF code < 400
    THEN [m EXCEPT !.respCode = code, !.respBody = body, !.pc = "done",
                   !.ret = Ret(code, body, NoErr)]
    ELSE [m EXCEPT !.respCode = code, !.respBody = body, !.pc = "sleep"]

\* A changed retry: a 5xx goes to the next attempt without the delay.
AfterResponse_NoSleep(m, code, body) ==
    IF code < 500
    THEN [m EXCEPT !.respCode = code, !.respBody = body, !.pc = "done",
                   !.ret = Ret(code, body, NoErr)]
    ELSE [m EXCEPT !.respCode = code, !.respBody = body, !.i = @ + 1]

\* What follows a response that was read (requests.go:73-83).
AfterResponse(m, code, body) ==
    IF code < 500
    THEN [m EXCEPT !.respCode = code, !.respBody = body, !.pc = "done",
                   !.ret = ExitReturn([m EXCEPT !.respCode = code, !.respBody = body])]
    ELSE [m EXCEPT !.respCode = code, !.respBody = body, !.pc = "sleep"]

Seen(h, kind, code, body, err) ==
    [h EXCEPT !.attempts = @ + 1,
              !.n5xx = IF kind = "resp" /\ code >= 500 THEN @ + 1 ELSE @,
              !.last = [kind |-> kind, code |-> code, body |-> body, err |-> err]]

\* The operation's history after an attempt the store did not serve, and after
\* one it served with status code, whose response was delivered or not.
Faulted(h) ==
    [h EXCEPT !.attempts = @ + 1, !.faulted = TRUE, !.served = 0]
Served(h, code, delivered) ==
    [h EXCEPT !.attempts = @ + 1,
              !.faulted = @ \/ ~delivered,
              !.conflicted = @ \/ code = 409,
              !.served = code]

\* One attempt (requests.go:52-83) on a context that is already cancelled:
\* client.Do fails with the context's error and nothing reaches the store.
AttemptCancelled(p) ==
    /\ mr[p].pc = "loop"
    /\ mr[p].i < httpClient[p].maxRetries
    /\ ctxCancelled[p]
    /\ mr' = [mr EXCEPT ![p] = AfterSendError(@, httpClient[p].maxRetries, ErrCtx)]
    /\ hist' = [hist EXCEPT ![p] = Seen(@, "sendErr", 0, NilBody, ErrCtx)]
    /\ sent' = [sent EXCEPT ![p] = @ \cup {mr[p].req}]
    /\ ophist' = [ophist EXCEPT ![p] = Faulted(@)]
    /\ UNCHANGED <<dbs, docs, op, pc, result, calls, httpClient, ctxCancelled, store0, codeToError>>

\* One attempt whose request does not reach the store: the send fails.
AttemptConnFail(p) ==
    /\ mr[p].pc = "loop"
    /\ mr[p].i < httpClient[p].maxRetries
    /\ ~ctxCancelled[p]
    /\ mr' = [mr EXCEPT ![p] = AfterSendError(@, httpClient[p].maxRetries, ErrNet)]
    /\ hist' = [hist EXCEPT ![p] = Seen(@, "sendErr", 0, NilBody, ErrNet)]
    /\ sent' = [sent EXCEPT ![p] = @ \cup {mr[p].req}]
    /\ ophist' = [ophist EXCEPT ![p] = Faulted(@)]
    /\ UNCHANGED <<dbs, docs, op, pc, result, calls, httpClient, ctxCancelled, store0, codeToError>>

\* One attempt that the store serves.  delivery tells what comes back: the
\* response ("ok"), nothing because the response is lost or the attempt's
\* deadline passes ("lost"), or the status line with a body that cannot be
\* read to its end ("readerr").
AttemptServed(p) ==
    /\ mr[p].pc = "loop"
    /\ mr[p].i < httpClient[p].maxRetries
    /\ ~ctxCancelled[p]
    /\ \E quorum \in BOOLEAN, delivery \in {"ok", "lost", "readerr"} :
         LET a == Store(mr[p].req, dbs, docs, quorum) IN
         /\ dbs' = a.dbs
         /\ docs' = a.docs
         /\ CASE delivery = "ok" ->
                   /\ mr' = [mr EXCEPT ![p] = AfterResponse(@, a.code, a.body)]
                   /\ hist' = [hist EXCEPT ![p] = Seen(@, "resp", a.code, a.body, NoErr)]
                   /\ ophist' = [ophist EXCEPT ![p] = Served(@, a.code, TRUE)]
              [] delivery = "lost" ->
                   /\ mr' = [mr EXCEPT ![p] =
                               AfterSendError(@, httpClient[p].maxRetries, ErrNet)]
                   /\ hist' = [hist EXCEPT ![p] = Seen(@, "sendErr", 0, NilBody, ErrNet)]
                   /\ ophist' = [ophist EXCEPT ![p] = Served(@, a.code, FALSE)]
              [] delivery = "readerr" ->
                   /\ mr' = [mr EXCEPT ![p] = AfterReadError(@, ErrRead)]
                   /\ hist' = [hist EXCEPT ![p] = Seen(@, "readErr", a.code, NilBody, ErrRead)]
                   /\ ophist' = [ophist EXCEPT ![p] = Served(@, a.code, FALSE)]
    /\ sent' = [sent EXCEPT ![p] = @ \cup {mr[p].req}]
    /\ UNCHANGED <<op, pc, result, calls, httpClient, ctxCancelled, store0, codeToError>>

\* One attempt that the store serves and whose response comes back.
AttemptAnswered(p) ==
    /\ mr[p].pc = "loop"
    /\ mr[p].i < httpClient[p].maxRetries
    /\ ~ctxCancelled[p]
    /\ \E quorum \in BOOLEAN :
         LET a == Store(mr[p].req, dbs, docs, quorum) IN
         /\ dbs' = a.dbs
         /\ docs' = a.docs
         /\ mr' = [mr EXCEPT ![p] = AfterResponse(@, a.code, a.body)]
         /\ hist' = [hist EXCEPT ![p] = Seen(@, "resp", a.code, a.body, NoErr)]
         /\ ophist' = [ophist EXCEPT ![p] = Served(@, a.code, TRUE)]
    /\ sent' = [sent EXCEPT ![p] = @ \cup {mr[p].req}]
    /\ UNCHANGED <<op, pc, result, calls, httpClient, ctxCancelled, store0, codeToError>>

\* One attempt that the store, or a proxy before it, answers with a 5xx
\* without serving the request.
AttemptFault(p) ==
    /\ mr[p].pc = "loop"
    /\ mr[p].i < httpClient[p].maxRetries
    /\ ~ctxCancelled[p]
    /\ \E code \in {500, 503} :
         /\ mr' = [mr EXCEPT ![p] = AfterResponse(@, code, ErrorBody("unavailable"))]
         /\ hist' = [hist EXCEPT ![p] =
                        Seen(@, "resp", code, ErrorBody("unavailable"), NoErr)]
    /\ sent' = [sent EXCEPT ![p] = @ \cup {mr[p].req}]
    /\ ophist' = [ophist EXCEPT ![p] = Faulted(@)]
    /\ UNCHANGED <<dbs, docs, op, pc, result, calls, httpClient, ctxCancelled, store0, codeToError>>

\* One attempt that something between the client and the store answers with a
\* status below 500, without the store serving the request: a page that is
\* not JSON, a cache's 304, a 400 or a 401.
IntermediaryAnswers ==
    {<<200, GarbledBody>>, <<304, EmptyBody>>,
     <<400, ErrorBody("bad_request")>>, <<401, ErrorBody("unauthorized")>>}

AttemptIntermediary(p) ==
    /\ mr[p].pc = "loop"
    /\ mr[p].i < httpClient[p].maxRetries
    /\ ~ctxCancelled[p]
    /\ \E a \in IntermediaryAnswers :
         /\ mr' = [mr EXCEPT ![p] = AfterResponse(@, a[1], a[2])]
         /\ hist' = [hist EXCEPT ![p] = Seen(@, "resp", a[1], a[2], NoErr)]
    /\ sent' = [sent EXCEPT ![p] = @ \cup {mr[p].req}]
    /\ ophist' = [ophist EXCEPT ![p] = Faulted(@)]
    /\ UNCHANGED <<dbs, docs, op, pc, result, calls, httpClient, ctxCancelled, store0,
                   codeToError>>

\* One attempt that the store serves with 201 behind a gateway that reports
\* the write as 200, with the store's body.
AttemptGateway(p) ==
    /\ mr[p].pc = "loop"
    /\ mr[p].i < httpClient[p].maxRetries
    /\ ~ctxCancelled[p]
    /\ LET a == Store(mr[p].req, dbs, docs, TRUE) IN
       /\ a.code = 201
       /\ dbs' = a.dbs
       /\ docs' = a.docs
       /\ mr' = [mr EXCEPT ![p] = AfterResponse(@, 200, a.body)]
       /\ hist' = [hist EXCEPT ![p] = Seen(@, "resp", 200, a.body, NoErr)]
       /\ ophist' = [ophist EXCEPT ![p] = Served(@, a.code, TRUE)]
    /\ sent' = [sent EXCEPT ![p] = @ \cup {mr[p].req}]
    /\ UNCHANGED <<op, pc, result, calls, httpClient, ctxCancelled, store0, codeToError>>

\* One attempt answered 404 without the store of the model serving it: by a
\* node of the cluster that does not hold the database or the document, as
\* after a write that was only accepted (202) or that another client undid.
AttemptNotFound(p) ==
    /\ mr[p].pc = "loop"
    /\ mr[p].i < httpClient[p].maxRetries
    /\ ~ctxCancelled[p]
    /\ mr' = [mr EXCEPT ![p] = AfterResponse(@, 404, ErrorBody("not_found"))]
    /\ hist' = [hist EXCEPT ![p] = Seen(@, "resp", 404, ErrorBody("not_found"), NoErr)]
    /\ sent' = [sent EXCEPT ![p] = @ \cup {mr[p].req}]
    /\ ophist' = [ophist EXCEPT ![p] = Faulted(@)]
    /\ UNCHANGED <<dbs, docs, op, pc, result, calls, httpClient, ctxCancelled, store0,
                   codeToError>>

\* A changed loop that counts the transport's maxRetries down instead of
\* counting i up.
Sleep_CountsDown(p) ==
    /\ mr[p].pc = "sleep"
    /\ mr' = [mr EXCEPT ![p].pc = "loop"]
    /\ httpClient' = [httpClient EXCEPT ![p].maxRetries = @ - 1]
    /\ hist' = [hist EXCEPT ![p].delays = @ + 1]
    /\ UNCHANGED <<dbs, docs, op, pc, result, calls, sent, ctxCancelled,
                   ophist, store0, codeToError>>

\* A changed loop that does not count an attempt that is retried.
Sleep_NoCount(p) ==
    /\ mr[p].pc = "sleep"
    /\ mr' = [mr EXCEPT ![p].pc = "loop"]
    /\ hist' = [hist EXCEPT ![p].delays = @ + 1]
    /\ UNCHANGED <<dbs, docs, op, pc, result, calls, httpClient, sent, ctxCancelled,
                   ophist, store0, codeToError>>

\* time.Sleep(c.retryWait), then the loop's i++ (requests.go:68-69, 83, 51).
Sleep(p) ==
    /\ mr[p].pc = "sleep"
    /\ mr' = [mr EXCEPT ![p].pc = "loop", ![p].i = @ + 1]
    /\ hist' = [hist EXCEPT ![p].delays = @ + 1]
    /\ UNCHANGED <<dbs, docs, op, pc, result, calls, httpClient, sent, ctxCancelled,
                   ophist, store0, codeToError>>

\* The caller cancels its context while its operation runs.
Cancel(p) ==
    /\ pc[p] \notin {"none", "done"}
    /\ ~ctxCancelled[p]
    /\ ctxCancelled' = [ctxCancelled EXCEPT ![p] = TRUE]
    /\ UNCHANGED <<dbs, docs, op, pc, result, calls, httpClient, mr, hist, sent,
                   ophist, store0, codeToError>>

Transport(p) ==
    \/ LoopExit(p)
    \/ AttemptCancelled(p)
    \/ AttemptConnFail(p)
    \/ AttemptServed(p)
    \/ AttemptFault(p)
    \/ Sleep(p)

\* ------------------------------------------------- a direct transport call

\* The caller runs makeRequest itself, on a transport of its own making.
RawStart(p) ==
    /\ pc[p] = "makeRequest"
    /\ Call(p, op[p].method, op[p].endpoint, op[p].body)
    /\ pc' = [pc EXCEPT ![p] = "makeRequest.wait"]
    /\ UNCHANGED <<dbs, docs, op, result, httpClient, sent, ctxCancelled, ophist, store0, codeToError>>

RawReturn(p) ==
    /\ pc[p] = "makeRequest.wait"
    /\ mr[p].pc = "done"
    /\ pc' = [pc EXCEPT ![p] = "done"]
    /\ result' = [result EXCEPT ![p] =
                    [NoResult EXCEPT !.err = Err("", mr[p].ret.err, 0, NilBody)]]
    /\ UNCHANGED <<dbs, docs, op, calls, httpClient, mr, hist, sent, ctxCancelled,
                   ophist, store0, codeToError>>

\* ------------------------------------------------------- couch_service.go

\* An error wrapped once more (fmt.Errorf("...: %w", e)): the cause, the
\* status code and the body it carries stay.
Wrap(msg, e) ==
    Err(msg, IF e.wraps # NoErr THEN e.wraps ELSE e.msg, e.code, e.body)

\* The Database handle GetDB returns (couch_service.go:61-64).
Database(client, name) == [httpClient |-> client, dbName |-> name]

\* How GetDB ends.
Return(p, err, val) ==
    /\ pc' = [pc EXCEPT ![p] = "done"]
    /\ result' = [result EXCEPT ![p] = [err |-> err, val |-> val, panic |-> FALSE]]

\* GetDB's first lines (couch_service.go:43-44): a transport of its own, and
\* the existence probe.
GetDBStart(p) ==
    /\ pc[p] = "GetDB"
    /\ httpClient' = [httpClient EXCEPT ![p] =
          NewCustomHTTPClient(op[p].baseURL, GetDBMaxRetries, GetDBRetryWait, GetDBTimeout)]
    /\ Call(p, "HEAD", <<op[p].name>>, NilValue)
    /\ pc' = [pc EXCEPT ![p] = "GetDB.Head"]
    /\ UNCHANGED <<dbs, docs, op, result, sent, ctxCancelled, ophist, store0, codeToError>>

\* A changed test: only 201 is taken for success.
createDBAccepts_Only201(respCode) == respCode = 201

\* The statuses createDB takes for success (couch_service.go:88).
createDBAccepts(respCode) == respCode = 201 \/ respCode = 202

\* A createDB without its check of the name.
createDBRejects_Never(dbName) == FALSE

\* createDB's check of the name (couch_service.go:81-83).
createDBRejects(dbName) == ~isValidDBName(dbName)

\* A changed GetDB that creates the database whatever its argument says.
GetDBNotFound_AlwaysCreates(p, createIfItDoesntExist) ==
    IF createDBRejects(op[p].name)
    THEN /\ Return(p, Wrap("error creating database",
                           Err("invalid database name", NoErr, 0, NilBody)), NilValue)
         /\ UNCHANGED <<mr, hist, calls>>
    ELSE /\ Call(p, "PUT", <<op[p].name>>, NilValue)
         /\ pc' = [pc EXCEPT ![p] = "createDB.Put"]
         /\ UNCHANGED result

\* What GetDB does with the probe's result when the probe answers 404
\* (couch_service.go:49-57); createIfItDoesntExist is the argument of this
\* invocation.
GetDBNotFound(p, createIfItDoesntExist) ==
    IF createIfItDoesntExist
    THEN IF createDBRejects(op[p].name)
         THEN /\ Return(p, Wrap("error creating database",
                                Err("invalid database name", NoErr, 0, NilBody)), NilValue)
              /\ UNCHANGED <<mr, hist, calls>>
         ELSE /\ Call(p, "PUT", <<op[p].name>>, NilValue)
              /\ pc' = [pc EXCEPT ![p] = "createDB.Put"]
              /\ UNCHANGED result
    ELSE /\ Return(p, errorDBNotFound, NilValue)
         /\ UNCHANGED <<mr, hist, calls>>

\* A changed GetDB that takes every status but 404 for the database's presence.
GetDBProbed_OnlyChecks404(p, createIfItDoesntExist) ==
    LET r == mr[p].ret IN
    CASE r.err # NoErr ->
           /\ Return(p, Err("error getting database", r.err, 0, NilBody), NilValue)
           /\ UNCHANGED <<mr, hist, calls>>
      [] r.err = NoErr /\ r.code = 404 -> GetDBNotFound(p, createIfItDoesntExist)
      [] OTHER ->
           /\ Return(p, NilErr, Database(httpClient[p], op[p].name))
           /\ UNCHANGED <<mr, hist, calls>>

\* GetDB after its probe (couch_service.go:45-64).
GetDBProbed(p, createIfItDoesntExist) ==
    LET r == mr[p].ret IN
    CASE r.err # NoErr ->
           /\ Return(p, Err("error getting database", r.err, 0, NilBody), NilValue)
           /\ UNCHANGED <<mr, hist, calls>>
      [] r.err = NoErr /\ r.code = 200 ->
           /\ Return(p, NilErr, Database(httpClient[p], op[p].name))
           /\ UNCHANGED <<mr, hist, calls>>
      [] r.err = NoErr /\ r.code = 404 -> GetDBNotFound(p, createIfItDoesntExist)
      [] OTHER ->
           /\ Return(p, Err("error getting database", NoErr, r.code, r.body), NilValue)
           /\ UNCHANGED <<mr, hist, calls>>

\* The invocation the caller made: createIfItDoesntExist is its argument.
GetDBAfterHead(p) ==
    /\ pc[p] = "GetDB.Head"
    /\ mr[p].pc = "done"
    /\ GetDBProbed(p, op[p].createIfItDoesntExist)
    /\ UNCHANGED <<dbs, docs, op, httpClient, sent, ctxCancelled, ophist, store0, codeToError>>

\* createDB after its PUT (couch_service.go:84-91), and GetDB after createDB
\* (couch_service.go:52-55): on success GetDB calls itself with
\* createIfItDoesntExist = false, which makes a transport and probes again.
GetDBAfterCreate(p) ==
    /\ pc[p] = "createDB.Put"
    /\ mr[p].pc = "done"
    /\ LET r == mr[p].ret IN
       CASE r.err # NoErr ->
              /\ Return(p, Wrap("error creating database",
                                Err("error creating db", r.err, 0, NilBody)), NilValue)
              /\ UNCHANGED <<mr, hist, calls, httpClient>>
         [] r.err = NoErr /\ ~createDBAccepts(r.code) ->
              /\ Return(p, Wrap("error creating database",
                                Err("error creating db", NoErr, r.code, r.body)), NilValue)
              /\ UNCHANGED <<mr, hist, calls, httpClient>>
         [] OTHER ->
              /\ httpClient' = [httpClient EXCEPT ![p] =
                    NewCustomHTTPClient(op[p].baseURL, GetDBMaxRetries,
                                        GetDBRetryWait, GetDBTimeout)]
              /\ Call(p, "HEAD", <<op[p].name>>, NilValue)
              /\ pc' = [pc EXCEPT ![p] = "GetDB.Head2"]
              /\ UNCHANGED result
    /\ UNCHANGED <<dbs, docs, op, sent, ctxCancelled, ophist, store0, codeToError>>

\* A changed recursion that hands the caller's createIfItDoesntExist on.
GetDBAfterHead2_CreatesAgain(p) ==
    /\ pc[p] = "GetDB.Head2"
    /\ mr[p].pc = "done"
    /\ GetDBProbed(p, op[p].createIfItDoesntExist)
    /\ UNCHANGED <<dbs, docs, op, httpClient, sent, ctxCancelled, ophist, store0, codeToError>>

\* The invocation GetDB made of itself: createIfItDoesntExist is false.
GetDBAfterHead2(p) ==
    /\ pc[p] = "GetDB.Head2"
    /\ mr[p].pc = "done"
    /\ GetDBProbed(p, FALSE)
    /\ UNCHANGED <<dbs, docs, op, httpClient, sent, ctxCancelled, ophist, store0, codeToError>>

\* ------------------------------------------------------------ database.go

\* UpdateDoc up to its PUT (database.go:164-169).  A panic of checkParameter
\* ends the call without a return value.
UpdateDocStart(p) ==
    /\ pc[p] = "UpdateDoc"
    /\ LET e == checkParameter(op[p].doc) IN
       CASE e = "panic" ->
              /\ pc' = [pc EXCEPT ![p] = "done"]
              /\ result' = [result EXCEPT ![p] = [NoResult EXCEPT !.panic = TRUE]]
              /\ UNCHANGED <<mr, hist, calls, httpClient>>
         [] e \notin {"panic", NoErr} ->
              /\ Return(p, Err("doc check failed", e, 0, NilBody), NilValue)
              /\ UNCHANGED <<mr, hist, calls, httpClient>>
         [] OTHER ->
              /\ httpClient' = [httpClient EXCEPT ![p] = op[p].db.httpClient]
              /\ Call(p, "PUT", <<op[p].db.dbName, op[p].id>>, op[p].doc)
              /\ pc' = [pc EXCEPT ![p] = "UpdateDoc.Put"]
              /\ UNCHANGED result
    /\ UNCHANGED <<dbs, docs, op, sent, ctxCancelled, ophist, store0, codeToError>>

\* A changed test: a conflict is taken for success.
UpdateDocAccepts_Conflict(respCode) == respCode = 200 \/ respCode = 201 \/ respCode = 409

\* The statuses UpdateDoc takes for success (database.go:173).
UpdateDocAccepts(respCode) == respCode = 200 \/ respCode = 201

\* UpdateDoc after its PUT (database.go:170-177).
UpdateDocAfterPut(p) ==
    /\ pc[p] = "UpdateDoc.Put"
    /\ mr[p].pc = "done"
    /\ LET r == mr[p].ret IN
       CASE r.err # NoErr -> Return(p, Err("error updating doc", r.err, 0, NilBody), NilValue)
         [] r.err = NoErr /\ ~UpdateDocAccepts(r.code) ->
              Return(p, Err("error updating doc", NoErr, r.code, r.body), NilValue)
         [] OTHER -> Return(p, NilErr, NilValue)
    /\ UNCHANGED <<dbs, docs, op, calls, httpClient, mr, hist, sent, ctxCancelled,
                   ophist, store0, codeToError>>

\* A struct type with named fields, each with its type and its json tag; the
\* tags are what json.Unmarshal goes by.
FieldsType(fields) ==
    [kind |-> "struct", fields |-> fields,
     tags |-> {fields[n].tag : n \in DOMAIN fields}]
Field(type, tag) == [type |-> type, tag |-> tag]
SliceOf(elem) == [kind |-> "slice", elem |-> elem]
KindType(k) == [kind |-> k]

\* The three errors of checkStructForJSONFields (database.go:323, 333, 339).
ErrRows ==
    "resultVar must be a pointer to a struct with a 'Rows' field of type slice and JSON tag 'rows'"
ErrRowFields ==
    "each element in 'Rows' slice must have 'ID' and 'Key' fields with JSON tags 'id' and 'key'"
ErrDocTag ==
    "each element in 'Rows' slice must have a 'Doc' field with JSON tag 'doc' when IncludeDocs is true"

\* A changed check that does not ask for the Key field of a row.
checkStructForJSONFields_NoKeyCheck(resultVar) ==
    IF resultVar.kind # "ptr" THEN "panic"
    ELSE IF resultVar.elem.kind # "struct" THEN "panic"
    ELSE LET fs == resultVar.elem.fields IN
         IF "Rows" \notin DOMAIN fs THEN ErrRows
         ELSE IF fs["Rows"].type.kind # "slice" \/ fs["Rows"].tag # "rows" THEN ErrRows
         ELSE LET rowType == fs["Rows"].type.elem IN
              IF rowType.kind # "struct" THEN "panic"
              ELSE LET rs == rowType.fields IN
                   IF "ID" \notin DOMAIN rs THEN ErrRowFields
                   ELSE IF rs["ID"].tag # "id" THEN ErrRowFields
                   ELSE IF "Key" \in DOMAIN rs /\ rs["Key"].tag # "key" THEN ErrRowFields
                   ELSE IF "Doc" \in DOMAIN rs /\ rs["Doc"].tag # "doc" THEN ErrDocTag
                   ELSE NoErr

\* checkStructForJSONFields (database.go:316-344).  reflect.TypeOf(nil) is a
\* nil Type, Elem panics on a struct type, and FieldByName panics on a type
\* that is not a struct: "panic" stands for these.
checkStructForJSONFields(resultVar) ==
    IF resultVar.kind # "ptr" THEN "panic"
    ELSE IF resultVar.elem.kind # "struct" THEN "panic"
    ELSE LET fs == resultVar.elem.fields IN
         IF "Rows" \notin DOMAIN fs THEN ErrRows
         ELSE IF fs["Rows"].type.kind # "slice" \/ fs["Rows"].tag # "rows" THEN ErrRows
         ELSE LET rowType == fs["Rows"].type.elem IN
              IF rowType.kind # "struct" THEN "panic"
              ELSE LET rs == rowType.fields IN
                   IF "ID" \notin DOMAIN rs \/ "Key" \notin DOMAIN rs THEN ErrRowFields
                   ELSE IF rs["ID"].tag # "id" \/ rs["Key"].tag # "key" THEN ErrRowFields
                   ELSE IF "Doc" \in DOMAIN rs /\ rs["Doc"].tag # "doc" THEN ErrDocTag
                   ELSE NoErr

\* A call that ended in a panic.
Panicked == [NoResult EXCEPT !.panic = TRUE]

\* View up to its POST (database.go:290-296).
ViewStart(p) ==
    /\ pc[p] = "View"
    /\ LET e == checkStructForJSONFields(op[p].resultVar) IN
       CASE e = "panic" ->
              /\ pc' = [pc EXCEPT ![p] = "done"]
              /\ result' = [result EXCEPT ![p] = Panicked]
              /\ UNCHANGED <<mr, hist, calls, httpClient>>
         [] e \notin {"panic", NoErr} ->
              /\ Return(p, Err("error checking struct for JSON fields", e, 0, NilBody),
                        NilValue)
              /\ UNCHANGED <<mr, hist, calls, httpClient>>
         [] OTHER ->
              /\ httpClient' = [httpClient EXCEPT ![p] = op[p].db.httpClient]
              /\ Call(p, "POST",
                      <<op[p].db.dbName, DesignDocID(op[p].design), "_view/" \o op[p].view>>,
                      op[p].params)
              /\ pc' = [pc EXCEPT ![p] = "View.Post"]
              /\ UNCHANGED result
    /\ UNCHANGED <<dbs, docs, op, sent, ctxCancelled, ophist, store0, codeToError>>

\* View after its POST (database.go:297-311).
ViewAfterPost(p) ==
    /\ pc[p] = "View.Post"
    /\ mr[p].pc = "done"
    /\ pc' = [pc EXCEPT ![p] = "done"]
    /\ LET r == mr[p].ret
           u == Unmarshal(r.body, op[p].resultVar)
       IN
       result' = [result EXCEPT ![p] =
          IF r.err # NoErr THEN Failed(Err("error creating design doc", r.err, 0, NilBody))
          ELSE IF r.code # 200 THEN Failed(Err("error getting view", NoErr, r.code, r.body))
          ELSE IF u.err # NoErr
               THEN Failed(Err("error unmarshalling into resultVar", u.err, 0, NilBody))
          ELSE Succeeded(u.val)]
    /\ UNCHANGED <<dbs, docs, op, calls, httpClient, mr, hist, sent, ctxCancelled,
                   ophist, store0, codeToError>>

\* checkParameter called by itself, as the build at hand defines it.
CheckParameter(p) ==
    /\ pc[p] = "checkParameter"
    /\ LET e == IF op[p].build = "utils.go"
                THEN checkParameter(op[p].param)
                ELSE checkParameterEmbedded(op[p].param)
       IN
       IF e = "panic"
       THEN /\ pc' = [pc EXCEPT ![p] = "done"]
            /\ result' = [result EXCEPT ![p] = Panicked]
       ELSE Return(p, Err(e, NoErr, 0, NilBody), NilValue)
    /\ UNCHANGED <<dbs, docs, op, calls, httpClient, mr, hist, sent, ctxCancelled,
                   ophist, store0, codeToError>>

\* A changed addSlashIfNeeded that appends the slash whatever s ends with.
addSlashIfNeeded_Always(s) == s \o <<"/">>

\* addSlashIfNeeded (unnamed/part_003:146-151); a string is the sequence of
\* its characters.
addSlashIfNeeded(s) ==
    IF Len(s) = 0 \/ s[Len(s)] # "/" THEN s \o <<"/">> ELSE s

\* addSlashIfNeeded called by itself (requests.go:288).
AddSlash(p) ==
    /\ pc[p] = "addSlashIfNeeded"
    /\ Return(p, NilErr, [kind |-> "string", s |-> addSlashIfNeeded(op[p].s)])
    /\ UNCHANGED <<dbs, docs, op, calls, httpClient, mr, hist, sent, ctxCancelled,
                   ophist, store0, codeToError>>

\* isValidDBName called by itself.
CheckDBName(p) ==
    /\ pc[p] = "isValidDBName"
    /\ Return(p, NilErr, Bool(isValidDBName(op[p].name)))
    /\ UNCHANGED <<dbs, docs, op, calls, httpClient, mr, hist, sent, ctxCancelled,
                   ophist, store0, codeToError>>

\* checkStructForJSONFields called by itself.
CheckShape(p) ==
    /\ pc[p] = "checkStructForJSONFields"
    /\ LET e == checkStructForJSONFields(op[p].resultVar) IN
       IF e = "panic"
       THEN /\ pc' = [pc EXCEPT ![p] = "done"]
            /\ result' = [result EXCEPT ![p] = Panicked]
       ELSE Return(p, Err(e, NoErr, 0, NilBody), NilValue)
    /\ UNCHANGED <<dbs, docs, op, calls, httpClient, mr, hist, sent, ctxCancelled,
                   ophist, store0, codeToError>>

\* CreateDoc's POST of the document to the database root (database.go:50).
CreateDocStart(p) ==
    /\ pc[p] = "CreateDoc"
    /\ httpClient' = [httpClient EXCEPT ![p] = op[p].db.httpClient]
    /\ Call(p, "POST", <<op[p].db.dbName>>, op[p].doc)
    /\ pc' = [pc EXCEPT ![p] = "CreateDoc.Post"]
    /\ UNCHANGED <<dbs, docs, op, result, sent, ctxCancelled, ophist, store0, codeToError>>

\* A changed test: an accepted write (202) is taken for success too.
CreateDocAccepts_Accepted(respCode) == respCode = 200 \/ respCode = 201 \/ respCode = 202

\* The statuses CreateDoc takes for success (database.go:55).
CreateDocAccepts(respCode) == respCode = 200 \/ respCode = 201

\* CreateDocResponseType (database.go:69-73) decoded from a JSON object: a
\* key that is absent leaves the field at its zero value.
CreateDocResponseType(m) ==
    [kind |-> "CreateDocResponseType",
     ID |-> IF "id" \in DOMAIN m THEN m["id"] ELSE "",
     Ok |-> IF "ok" \in DOMAIN m THEN m["ok"] ELSE FALSE,
     Rev |-> IF "rev" \in DOMAIN m THEN m["rev"] ELSE 0]

\* What CreateDoc returns for the transport's return ret (database.go:51-66).
CreateDocReturn(ret) ==
    IF ret.err # NoErr THEN Failed(Err("error creating doc", ret.err, 0, NilBody))
    ELSE IF ~CreateDocAccepts(ret.code)
         THEN Failed(Err("error creating doc", NoErr, ret.code, ret.body))
    ELSE LET u == Unmarshal(ret.body, PtrTo(StructType({"id", "ok", "rev"}), FALSE)) IN
         IF u.err # NoErr
         THEN Failed(Err("error unmarshalling create doc response", u.err, 0, NilBody))
         ELSE Succeeded(CreateDocResponseType(u.val.m))

CreateDocAfterPost(p) ==
    /\ pc[p] = "CreateDoc.Post"
    /\ mr[p].pc = "done"
    /\ pc' = [pc EXCEPT ![p] = "done"]
    /\ result' = [result EXCEPT ![p] = CreateDocReturn(mr[p].ret)]
    /\ UNCHANGED <<dbs, docs, op, calls, httpClient, mr, hist, sent, ctxCancelled,
                   ophist, store0, codeToError>>

ErrInvalidParam == Err("doc parameter must be a pointer to a struct", NoErr, 0, NilBody)

\* GetDoc up to its GET (database.go:104-109).
GetDocStart(p) ==
    /\ pc[p] = "GetDoc"
    /\ IF ~isValidParam(op[p].out)
       THEN /\ Return(p, ErrInvalidParam, NilValue)
            /\ UNCHANGED <<mr, hist, calls, httpClient>>
       ELSE /\ httpClient' = [httpClient EXCEPT ![p] = op[p].db.httpClient]
            /\ Call(p, "GET", <<op[p].db.dbName, op[p].id>>, NilValue)
            /\ pc' = [pc EXCEPT ![p] = "GetDoc.Get"]
            /\ UNCHANGED result
    /\ UNCHANGED <<dbs, docs, op, sent, ctxCancelled, ophist, store0, codeToError>>

\* A changed GetDoc that decodes into a map with no entries.
GetDocReturn_DropsFields(ret, out, table) ==
    IF ret.err # NoErr THEN Failed(Err("error getting doc", ret.err, 0, NilBody))
    ELSE IF ret.code # 200
         THEN IF ret.code \in DOMAIN table THEN Failed(table[ret.code])
              ELSE Failed(Err("error getting doc", NoErr, ret.code, ret.body))
    ELSE Succeeded(MapValue(<<>>))

\* What GetDoc returns for the transport's return ret, and what it leaves in
\* out (database.go:110-126); table is codeToError.
GetDocReturn(ret, out, table) ==
    IF ret.err # NoErr THEN Failed(Err("error getting doc", ret.err, 0, NilBody))
    ELSE IF ret.code # 200
         THEN IF ret.code \in DOMAIN table THEN Failed(table[ret.code])
              ELSE Failed(Err("error getting doc", NoErr, ret.code, ret.body))
    ELSE LET u == Unmarshal(ret.body, out) IN
         IF u.err # NoErr THEN Failed(Err("error unmarshalling doc", u.err, 0, NilBody))
         ELSE Succeeded(u.val)

GetDocAfterGet(p) ==
    /\ pc[p] = "GetDoc.Get"
    /\ mr[p].pc = "done"
    /\ pc' = [pc EXCEPT ![p] = "done"]
    /\ result' = [result EXCEPT ![p] = GetDocReturn(mr[p].ret, op[p].out, codeToError)]
    /\ UNCHANGED <<dbs, docs, op, calls, httpClient, mr, hist, sent, ctxCancelled,
                   ophist, store0, codeToError>>

\* DeleteDoc's target of its read: &doc, doc a map[string]interface{}
\* (database.go:202-203).
DeleteDocTarget == PtrTo(MapType("string", "interface{}"), FALSE)

\* DeleteDoc up to the GET of its GetDoc (database.go:201-203, 104-109).
DeleteDocStart(p) ==
    /\ pc[p] = "DeleteDoc"
    /\ IF ~isValidParam(DeleteDocTarget)
       THEN /\ Return(p, Wrap("error getting doc to delete", ErrInvalidParam), NilValue)
            /\ UNCHANGED <<mr, hist, calls, httpClient>>
       ELSE /\ httpClient' = [httpClient EXCEPT ![p] = op[p].db.httpClient]
            /\ Call(p, "GET", <<op[p].db.dbName, op[p].id>>, NilValue)
            /\ pc' = [pc EXCEPT ![p] = "DeleteDoc.Get"]
            /\ UNCHANGED result
    /\ UNCHANGED <<dbs, docs, op, sent, ctxCancelled, ophist, store0, codeToError>>

\* A changed DeleteDoc that goes on to its DELETE whatever the read returned.
DeleteDocAborts_Never(g) == FALSE

\* DeleteDoc's test of its read (database.go:204).
DeleteDocAborts(g) == g.err # NilErr

\* rev, _ := doc["_rev"].(string) (database.go:208): no _rev gives the empty rev.
RevOf(m) == IF "_rev" \in DOMAIN m THEN m["_rev"] ELSE 0

\* DeleteDoc after its read (database.go:204-210).
DeleteDocAfterGet(p) ==
    /\ pc[p] = "DeleteDoc.Get"
    /\ mr[p].pc = "done"
    /\ LET g == GetDocReturn(mr[p].ret, DeleteDocTarget, codeToError) IN
       IF DeleteDocAborts(g)
       THEN /\ Return(p, Wrap("error getting doc to delete", g.err), NilValue)
            /\ UNCHANGED <<mr, hist, calls>>
       ELSE /\ Call(p, "DELETE",
                    <<op[p].db.dbName, op[p].id, "?rev=",
                      IF g.err = NilErr THEN RevOf(g.val.m) ELSE 0>>, NilValue)
            /\ pc' = [pc EXCEPT ![p] = "DeleteDoc.Delete"]
            /\ UNCHANGED result
    /\ UNCHANGED <<dbs, docs, op, httpClient, sent, ctxCancelled, ophist, store0,
                   codeToError>>

\* A changed test: a conflict is taken for a delete that succeeded.
DeleteDocAccepts_Conflict(respCode) == respCode = 200 \/ respCode = 202 \/ respCode = 409

\* A changed test: an accepted delete (202) is taken for a failure.
DeleteDocAccepts_Only200(respCode) == respCode = 200

\* The statuses DeleteDoc takes for success (database.go:215).
DeleteDocAccepts(respCode) == respCode = 200 \/ respCode = 202

\* DeleteDoc after its DELETE (database.go:211-219).
DeleteDocAfterDelete(p) ==
    /\ pc[p] = "DeleteDoc.Delete"
    /\ mr[p].pc = "done"
    /\ LET r == mr[p].ret IN
       CASE r.err # NoErr -> Return(p, Err("error deleting doc", r.err, 0, NilBody), NilValue)
         [] r.err = NoErr /\ ~DeleteDocAccepts(r.code) ->
              Return(p, Err("error deleting doc", NoErr, r.code, r.body), NilValue)
         [] OTHER -> Return(p, NilErr, NilValue)
    /\ UNCHANGED <<dbs, docs, op, calls, httpClient, mr, hist, sent, ctxCancelled,
                   ophist, store0, codeToError>>

\* DocExists's HEAD (database.go:347).
DocExistsStart(p) ==
    /\ pc[p] = "DocExists"
    /\ httpClient' = [httpClient EXCEPT ![p] = op[p].db.httpClient]
    /\ Call(p, "HEAD", <<op[p].db.dbName, op[p].docID>>, NilValue)
    /\ pc' = [pc EXCEPT ![p] = "DocExists.Head"]
    /\ UNCHANGED <<dbs, docs, op, result, sent, ctxCancelled, ophist, store0, codeToError>>

\* A changed DocExists whose default case reports false and no error.
DocExistsReturn_Coerces(ret) ==
    IF ret.err # NoErr
    THEN [err |-> Err("error sending HEAD request", ret.err, 0, NilBody),
          val |-> Bool(FALSE), panic |-> FALSE]
    ELSE CASE ret.code = 200 -> Succeeded(Bool(TRUE))
           [] ret.code = 304 -> Succeeded(Bool(TRUE))
           [] OTHER -> Succeeded(Bool(FALSE))

\* What DocExists returns for the transport's return ret (database.go:348-361).
DocExistsReturn(ret) ==
    IF ret.err # NoErr
    THEN [err |-> Err("error sending HEAD request", ret.err, 0, NilBody),
          val |-> Bool(FALSE), panic |-> FALSE]
    ELSE CASE ret.code = 200 -> Succeeded(Bool(TRUE))
           [] ret.code = 304 -> Succeeded(Bool(TRUE))
           [] ret.code = 404 -> Succeeded(Bool(FALSE))
           [] OTHER -> [err |-> Err("unexpected response status code", NoErr,
                                    ret.code, ret.body),
                        val |-> Bool(FALSE), panic |-> FALSE]

DocExistsAfterHead(p) ==
    /\ pc[p] = "DocExists.Head"
    /\ mr[p].pc = "done"
    /\ pc' = [pc EXCEPT ![p] = "done"]
    /\ result' = [result EXCEPT ![p] = DocExistsReturn(mr[p].ret)]
    /\ UNCHANGED <<dbs, docs, op, calls, httpClient, mr, hist, sent, ctxCancelled,
                   ophist, store0, codeToError>>

\* The JSON tags of designDocument's fields (database.go:248-261).
designDocumentTags ==
    {"_id", "_rev", "language", "options", "filters", "lists", "rewrites", "shows",
     "updates", "validate_doc_update", "views", "autoupdate"}

\* CreateDesignDoc's target of its read: &prevDoc (database.go:231-232).
prevDocTarget == PtrTo(StructType(designDocumentTags), FALSE)

\* CreateDesignDoc up to the GET of its GetDoc (database.go:222-232, 104-109).
CreateDesignDocStart(p) ==
    /\ pc[p] = "CreateDesignDoc"
    /\ httpClient' = [httpClient EXCEPT ![p] = op[p].db.httpClient]
    /\ Call(p, "GET", <<op[p].db.dbName, DesignDocID(op[p].designDoc)>>, NilValue)
    /\ pc' = [pc EXCEPT ![p] = "CreateDesignDoc.Get"]
    /\ UNCHANGED <<dbs, docs, op, result, sent, ctxCancelled, ophist, store0, codeToError>>

\* A changed CreateDesignDoc that never carries a revision.
CreateDesignDocRev_Never(g) == 0

\* body.Rev after the read returned g (database.go:232-235): prevDoc.Rev
\* unless the read's error is ErrNotFound; prevDoc is empty when the read
\* decoded nothing.
CreateDesignDocRev(g) ==
    IF ~ErrorsIs(g.err, ErrNotFound)
    THEN IF g.err = NilErr THEN RevOf(g.val.m) ELSE 0
    ELSE 0

\* CreateDesignDoc after its read (database.go:224-237).
CreateDesignDocAfterGet(p) ==
    /\ pc[p] = "CreateDesignDoc.Get"
    /\ mr[p].pc = "done"
    /\ LET g == GetDocReturn(mr[p].ret, prevDocTarget, codeToError)
           body == [kind |-> "designDocument",
                    ID |-> DesignDocID(op[p].designDoc),
                    Rev |-> CreateDesignDocRev(g),
                    Language |-> "javascript",
                    Views |-> op[p].views,
                    Autoupdate |-> TRUE]
       IN Call(p, "PUT", <<op[p].db.dbName, DesignDocID(op[p].designDoc)>>, body)
    /\ pc' = [pc EXCEPT ![p] = "CreateDesignDoc.Put"]
    /\ UNCHANGED <<dbs, docs, op, result, httpClient, sent, ctxCancelled, ophist, store0,
                   codeToError>>

\* A changed test: a conflict is taken for success.
CreateDesignDocAccepts_Conflict(code) == code = 200 \/ code = 201 \/ code = 409

\* The statuses CreateDesignDoc takes for success (database.go:242).
CreateDesignDocAccepts(code) == code = 200 \/ code = 201

\* CreateDesignDoc after its PUT (database.go:238-245).
CreateDesignDocAfterPut(p) ==
    /\ pc[p] = "CreateDesignDoc.Put"
    /\ mr[p].pc = "done"
    /\ LET r == mr[p].ret IN
       CASE r.err # NoErr ->
              Return(p, Err("error creating design doc", r.err, 0, NilBody), NilValue)
         [] r.err = NoErr /\ ~CreateDesignDocAccepts(r.code) ->
              Return(p, Err("error creating design doc", NoErr, r.code, r.body), NilValue)
         [] OTHER -> Return(p, NilErr, NilValue)
    /\ UNCHANGED <<dbs, docs, op, calls, httpClient, mr, hist, sent, ctxCancelled,
                   ophist, store0, codeToError>>

\* The caller of CreateDesignDoc calls it again for the same name.
ThenCreateDesignDocAgain(p) ==
    /\ pc[p] = "done"
    /\ op[p].fn = "CreateDesignDoc"
    /\ op[p].more > 0
    /\ op' = [op EXCEPT ![p].more = @ - 1]
    /\ pc' = [pc EXCEPT ![p] = "CreateDesignDoc"]
    /\ result' = [result EXCEPT ![p] = NoResult]
    /\ calls' = [calls EXCEPT ![p] = <<>>]
    /\ sent' = [sent EXCEPT ![p] = {}]
    /\ ophist' = [ophist EXCEPT ![p] = NoOpHist]
    /\ mr' = [mr EXCEPT ![p] = IdleRequest]
    /\ hist' = [hist EXCEPT ![p] = NoHist]
    /\ UNCHANGED <<dbs, docs, httpClient, ctxCancelled, store0, codeToError>>

\* The caller of CreateDoc goes on to read the document it created back:
\* GetDoc(resp.ID, &out), out a map[string]interface{}.
ThenGetDoc(p) ==
    /\ pc[p] = "done"
    /\ op[p].fn = "CreateDoc"
    /\ result[p].err = NilErr
    /\ op' = [op EXCEPT ![p] =
                [fn |-> "GetDoc", db |-> op[p].db, id |-> result[p].val.ID,
                 out |-> PtrTo(MapType("string", "interface{}"), FALSE),
                 created |-> [doc |-> op[p].doc, resp |-> result[p].val]]]
    /\ pc' = [pc EXCEPT ![p] = "GetDoc"]
    /\ result' = [result EXCEPT ![p] = NoResult]
    /\ calls' = [calls EXCEPT ![p] = <<>>]
    /\ sent' = [sent EXCEPT ![p] = {}]
    /\ ophist' = [ophist EXCEPT ![p] = NoOpHist]
    /\ mr' = [mr EXCEPT ![p] = IdleRequest]
    /\ hist' = [hist EXCEPT ![p] = NoHist]
    /\ UNCHANGED <<dbs, docs, httpClient, ctxCancelled, store0, codeToError>>

\* ---------------------------------------------------------- initial states

Idle == [fn |-> "none"]

\* The store a run starts from: some databases exist, and documents exist
\* only if their database does.
StoredDocs == {NoDoc} \cup {[rev |-> r, obj |-> [key |-> "v1"]] : r \in 1..MaxRev}

InitStore ==
    /\ dbs \in SUBSET {DocDB, OtherDB, SystemDB}
    /\ \E f \in [DocIds -> StoredDocs] :
          docs = [id \in StoreIds |-> IF id \in DocIds THEN f[id] ELSE NoDoc]
    /\ DocDB \notin dbs => docs = [id \in StoreIds |-> NoDoc]
    /\ store0 = [dbs |-> dbs, docs |-> docs]

\* Caller c1 runs the operation o on the client c; caller c2 runs nothing.
InitCallers(o, c) ==
    /\ op = [p \in Procs |-> IF p = "c1" THEN o ELSE Idle]
    /\ pc = [p \in Procs |-> IF p = "c1" THEN o.fn ELSE "none"]
    /\ httpClient = [p \in Procs |-> IF p = "c1" THEN c ELSE NoClient]
    /\ result = [p \in Procs |-> NoResult]
    /\ calls = [p \in Procs |-> <<>>]
    /\ mr = [p \in Procs |-> IdleRequest]
    /\ hist = [p \in Procs |-> NoHist]
    /\ sent = [p \in Procs |-> {}]
    /\ ctxCancelled = [p \in Procs |-> FALSE]
    /\ ophist = [p \in Procs |-> NoOpHist]

\* The table of a build whose operations never read it.
InitErrors == codeToError = BadRequestTable

BaseURL == "http://store/"

\* The documents a caller hands to UpdateDoc: string-keyed maps with any of
\* the keys _id, _rev and key, and values of other kinds.
DocObj(ks, id, rev) ==
    [k \in ks |-> CASE k = "_id" -> id [] k = "_rev" -> rev [] OTHER -> "v2"]
MapDocs ==
    {MapValue(DocObj(ks, id, rev)) :
        ks \in SUBSET {"_id", "_rev", "key"}, id \in DocIds, rev \in 1..(MaxRev + 1)}
OtherDocs == {NilValue, [kind |-> "int"], [kind |-> "othermap"]}

\* The transport calls a caller makes directly.
RawOps ==
    {[fn |-> "makeRequest", method |-> "HEAD", endpoint |-> <<n>>, body |-> NilValue] :
        n \in {DocDB, OtherDB}}
    \cup {[fn |-> "makeRequest", method |-> "PUT", endpoint |-> <<OtherDB>>,
           body |-> NilValue]}
    \cup {[fn |-> "makeRequest", method |-> "PUT", endpoint |-> <<DocDB, "x">>,
           body |-> MapValue(DocObj({"_id", "_rev", "key"}, "x", rev))] :
             rev \in 1..MaxRev}
    \cup {[fn |-> "makeRequest", method |-> "PUT", endpoint |-> <<DocDB, "x">>,
           body |-> Unmarshalable]}

GetDBOps ==
    {[fn |-> "GetDB", baseURL |-> BaseURL, name |-> n, createIfItDoesntExist |-> c] :
        n \in DbNames, c \in BOOLEAN}

\* The handle the document operations run on: the one GetDB returns for DocDB.
Handle ==
    Database(NewCustomHTTPClient(BaseURL, GetDBMaxRetries, GetDBRetryWait, GetDBTimeout),
             DocDB)

UpdateDocOps ==
    {[fn |-> "UpdateDoc", db |-> Handle, id |-> id, doc |-> d] :
        id \in DocIds, d \in MapDocs \cup OtherDocs}

\* The documents a caller hands to CreateDoc: maps with or without an _id of
\* their own, and no document at all.
NewDocs == {MapValue(DocObj(ks, "x", 0)) : ks \in SUBSET {"_id", "key"}} \cup {NilValue}

\* The values a caller hands to GetDoc as out.
OutTargets ==
    {NilValue,
     StructType({"_id", "_rev", "key"}),
     PtrTo(StructType({"_id", "_rev", "key"}), FALSE),
     PtrTo(StructType({"_id", "_rev", "key"}), TRUE),
     PtrTo(MapType("string", "interface{}"), FALSE),
     PtrTo(MapType("string", "string"), FALSE),
     PtrTo(MapType("int", "interface{}"), FALSE),
     PtrTo(MapType("string", "error"), FALSE),
     PtrTo(SliceType, FALSE)}

\* The calls of the document operations.
DocOps ==
    {[fn |-> "CreateDoc", db |-> Handle, doc |-> d] : d \in NewDocs}
      \cup {[fn |-> "GetDoc", db |-> Handle, id |-> "x", out |-> t] : t \in OutTargets}
      \cup {[fn |-> "DeleteDoc", db |-> Handle, id |-> "x"],
            [fn |-> "DocExists", db |-> Handle, docID |-> "x"]}

\* The store the document operations start from: the database of the handle
\* exists or not, and document x exists, at some revision, or not.
InitDocStore ==
    /\ dbs \in {{DocDB}, {}}
    /\ \E d \in StoredDocs : docs = [id \in StoreIds |-> IF id = "x" THEN d ELSE NoDoc]
    /\ DocDB \notin dbs => docs = [id \in StoreIds |-> NoDoc]
    /\ store0 = [dbs |-> dbs, docs |-> docs]

\* The views a caller hands to CreateDesignDoc ("none": a nil map), and the
\* calls it makes one after the other for the same name.
CreateDesignDocOps ==
    {[fn |-> "CreateDesignDoc", db |-> Handle, designDoc |-> DesignDocName,
      views |-> v, more |-> n] : v \in {"none", "m2"}, n \in 0..MaxMoreCalls}

\* The store CreateDesignDoc starts from: the design document exists, at some
\* revision, or not.
StoredDesignDocs ==
    {NoDoc} \cup {[rev |-> r,
                   obj |-> [language |-> "javascript", views |-> "m1", autoupdate |-> TRUE]] :
                     r \in 1..MaxRev}

InitDesignStore ==
    /\ dbs \in {{DocDB}, {}}
    /\ \E d \in StoredDesignDocs :
          docs = [id \in StoreIds |-> IF id = DesignDocID(DesignDocName) THEN d ELSE NoDoc]
    /\ DocDB \notin dbs => docs = [id \in StoreIds |-> NoDoc]
    /\ store0 = [dbs |-> dbs, docs |-> docs]

\* A struct value: the names FieldByName finds (its own fields and, when it
\* embeds Document, Document and the promoted ID and Rev), and the json tags
\* of its own fields.
StructValue(f, embeds) ==
    [kind |-> "struct",
     fields |-> DOMAIN f \cup (IF embeds THEN {"Document", "ID", "Rev"} ELSE {}),
     tags |-> {f[n] : n \in DOMAIN f} \ {""},
     embedsDocument |-> embeds]

\* Structs with fields named ID, Rev, _id or _rev, untagged or tagged _id or
\* _rev, embedding Document or not; the structs of the tests are among them
\* (requests.go:128-146).
ParamStructs ==
    {StructValue(f, e) :
        f \in UNION {[ns -> {"", "_id", "_rev"}] : ns \in SUBSET {"ID", "Rev", "_id", "_rev"}},
        e \in BOOLEAN}

\* The values handed to checkStructForJSONFields as resultVar: nil, a struct
\* by value, a pointer to an int, and pointers to structs without Rows, with
\* a Rows that is a string, and with a Rows that is a slice, tagged one way
\* or another, of a type that is not a struct or of a struct that has or
\* lacks ID, Key and Doc, tagged one way or another.
ShapeTargets ==
    LET TagsOf(name) ==
            CASE name = "ID" -> {"id", "", "ID"}
              [] name = "Key" -> {"key", ""}
              [] OTHER -> {"doc", "dock"}
        RowStructs ==
            {f \in UNION {[ns -> UNION {{Field(KindType("string"), t) : t \in TagsOf(n)} :
                                          n \in ns}] :
                             ns \in SUBSET {"ID", "Key", "Doc"}} :
                \A n \in DOMAIN f : f[n].tag \in TagsOf(n)}
        RowTypes ==
            {FieldsType(f) : f \in RowStructs}
              \cup {KindType("interface"), KindType("int"), KindType("ptr")}
        RowsFields ==
            {Field(KindType("string"), "rows")}
              \cup {Field(SliceOf(t), tag) :
                       t \in RowTypes, tag \in {"rows", "", "rows,omitempty"}}
        Offset == Field(KindType("int"), "offset")
    IN
    {NilValue, KindType("struct"), PtrTo(KindType("int"), FALSE),
     PtrTo(FieldsType([n \in {"Offset"} |-> Offset]), FALSE)}
      \cup {PtrTo(FieldsType([n \in {"Rows", "Offset"} |-> IF n = "Rows" THEN r ELSE Offset]),
                  FALSE) : r \in RowsFields}

\* The texts handed to isValidDBName and to addSlashIfNeeded: every text of up to
\* MaxNameLen characters, over letters of both cases, digits, the seven
\* special characters, and characters outside the class (requests.go:216-228).
Names ==
    LET NameChars == {"a", "z", "A", "0", "9", "_", "$", "(", ")", "+", "-", "/",
                      "&", " ", "\n"}
    IN UNION {[1..n -> NameChars] : n \in 0..MaxNameLen}

\* The calls of the checks by themselves; checkParameter is the one of
\* utils.go or the one of unnamed/part_003.
CheckOps ==
    {[fn |-> "checkStructForJSONFields", resultVar |-> t] : t \in ShapeTargets}
      \cup {[fn |-> "isValidDBName", name |-> n] : n \in Names}
      \cup {[fn |-> "addSlashIfNeeded", s |-> n] : n \in Names}
      \cup {[fn |-> "checkParameter", param |-> d, build |-> b] :
               d \in ParamStructs \cup MapDocs \cup OtherDocs \cup {NilMap},
               b \in {"utils.go", "unnamed/part_003"}}

\* Types of the tests (unnamed/part_002:80-92) and the library's own
\* ViewResponse (database.go:270-275).
validStruct ==
    FieldsType([r \in {"Rows"} |->
        Field(SliceOf(FieldsType([n \in {"ID", "Key", "Doc"} |->
                  CASE n = "ID" -> Field(KindType("string"), "id")
                    [] n = "Key" -> Field(KindType("string"), "key")
                    [] OTHER -> Field(KindType("struct"), "doc")])),
              "rows")])
missingRowsStruct ==
    FieldsType([n \in {"ID", "Key", "Doc"} |->
        CASE n = "ID" -> Field(KindType("string"), "id")
          [] n = "Key" -> Field(KindType("string"), "key")
          [] OTHER -> Field(KindType("struct"), "doc")])
ViewResponse ==
    FieldsType([n \in {"Offset", "Rows", "TotalRows", "UpdateSeq"} |->
        CASE n = "Offset" -> Field(KindType("int"), "offset")
          [] n = "Rows" -> Field(SliceOf(KindType("interface")), "rows")
          [] n = "TotalRows" -> Field(KindType("int"), "total_rows")
          [] OTHER -> Field(KindType("interface"), "update_seq")])

\* The parameter sets handed to View: nil, and maps that set limit and
\* descending to a zero value, to another value, or not at all.
ParamSets ==
    LET ParamValues(k) ==
            IF k = "limit"
            THEN {[kind |-> "int", n |-> 0], [kind |-> "int", n |-> 5]}
            ELSE {[kind |-> "bool", b |-> FALSE], [kind |-> "bool", b |-> TRUE]}
        ParamMaps ==
            UNION {[ks -> ParamValues("limit") \cup ParamValues("descending")] :
                      ks \in SUBSET {"limit", "descending"}}
    IN
    {NilMap} \cup {MapValue(m) : m \in {f \in ParamMaps :
                                           \A k \in DOMAIN f : f[k] \in ParamValues(k)}}

ViewOps ==
    {[fn |-> "View", db |-> Handle, design |-> DesignDocName, view |-> "v",
      params |-> ps, resultVar |-> t] :
        ps \in ParamSets,
        t \in {PtrTo(validStruct, FALSE), PtrTo(missingRowsStruct, FALSE),
               PtrTo(ViewResponse, FALSE)}}

\* --------------------------------------------------------- specifications

\* A transport of the caller's own making, with any maxRetries.
InitTransport ==
    /\ InitStore
    /\ InitErrors
    /\ \E o \in RawOps, n \in (0 - 1)..MaxRetriesBound :
         InitCallers(o, NewCustomHTTPClient(BaseURL, n, GetDBRetryWait, GetDBTimeout))

NextTransport ==
    \E p \in Procs : RawStart(p) \/ Transport(p) \/ RawReturn(p) \/ Cancel(p)

SpecTransport == InitTransport /\ [][NextTransport]_vars

InitGetDB ==
    /\ InitStore
    /\ InitErrors
    /\ \E o \in GetDBOps : InitCallers(o, NoClient)

NextGetDB ==
    \E p \in Procs :
        \/ GetDBStart(p)
        \/ GetDBAfterHead(p)
        \/ GetDBAfterCreate(p)
        \/ GetDBAfterHead2(p)
        \/ Transport(p)
        \/ Cancel(p)

SpecGetDB == InitGetDB /\ [][NextGetDB]_vars

InitUpdateDoc ==
    /\ InitStore
    /\ InitErrors
    /\ \E o \in UpdateDocOps : InitCallers(o, NoClient)

NextUpdateDoc ==
    \E p \in Procs :
        \/ UpdateDocStart(p)
        \/ UpdateDocAfterPut(p)
        \/ Transport(p)
        \/ Cancel(p)

SpecUpdateDoc == InitUpdateDoc /\ [][NextUpdateDoc]_vars

\* The document operations of a handle, one caller, either build of the table.
InitDocs ==
    /\ InitDocStore
    /\ codeToError \in ErrorTables
    /\ \E o \in DocOps : InitCallers(o, NoClient)

NextDocs ==
    \E p \in Procs :
        \/ CreateDocStart(p)
        \/ CreateDocAfterPost(p)
        \/ ThenGetDoc(p)
        \/ GetDocStart(p)
        \/ GetDocAfterGet(p)
        \/ DeleteDocStart(p)
        \/ DeleteDocAfterGet(p)
        \/ DeleteDocAfterDelete(p)
        \/ DocExistsStart(p)
        \/ DocExistsAfterHead(p)
        \/ Transport(p)
        \/ AttemptIntermediary(p)
        \/ AttemptGateway(p)
        \/ Cancel(p)

SpecDocs == InitDocs /\ [][NextDocs]_vars

\* CreateDesignDoc, called once or several times by one caller.
InitDesignDoc ==
    /\ InitDesignStore
    /\ codeToError \in ErrorTables
    /\ \E o \in CreateDesignDocOps : InitCallers(o, NoClient)

NextDesignDoc ==
    \E p \in Procs :
        \/ CreateDesignDocStart(p)
        \/ CreateDesignDocAfterGet(p)
        \/ CreateDesignDocAfterPut(p)
        \/ ThenCreateDesignDocAgain(p)
        \/ Transport(p)
        \/ Cancel(p)

SpecDesignDoc == InitDesignDoc /\ [][NextDesignDoc]_vars

\* View, one caller.
InitView ==
    /\ InitDesignStore
    /\ InitErrors
    /\ \E o \in ViewOps : InitCallers(o, NoClient)

NextView ==
    \E p \in Procs :
        \/ ViewStart(p)
        \/ ViewAfterPost(p)
        \/ Transport(p)
        \/ AttemptIntermediary(p)
        \/ Cancel(p)

SpecView == InitView /\ [][NextView]_vars

\* Every operation of the library, one call of each kind at a time, by one
\* caller, on a store in which the database, document x and the design
\* document exist or not, with either build of the table.
LibraryOps ==
    {o \in GetDBOps : o.name \in {DocDB, BadName}}
      \cup {[fn |-> "UpdateDoc", db |-> Handle, id |-> "x",
             doc |-> MapValue(DocObj({"_id", "_rev", "key"}, "x", 1))]}
      \cup {o \in DocOps :
               o.fn = "GetDoc" => o.out = PtrTo(MapType("string", "interface{}"), FALSE)}
      \cup {o \in CreateDesignDocOps : o.more = 0 /\ o.views = "m2"}
      \cup {o \in ViewOps : o.params = NilMap /\ o.resultVar = PtrTo(validStruct, FALSE)}

InitLibrary ==
    /\ dbs \in {{DocDB}, {}}
    /\ \E d \in {s \in StoredDocs : s = NoDoc \/ s.rev = 1},
          g \in {s \in StoredDesignDocs : s = NoDoc \/ s.rev = 1} :
          docs = [id \in StoreIds |->
                    CASE id = "x" -> d
                      [] id = DesignDocID(DesignDocName) -> g
                      [] OTHER -> NoDoc]
    /\ DocDB \notin dbs => docs = [id \in StoreIds |-> NoDoc]
    /\ store0 = [dbs |-> dbs, docs |-> docs]
    /\ codeToError \in ErrorTables
    /\ \E o \in LibraryOps : InitCallers(o, NoClient)

NextLibrary ==
    \E p \in Procs :
        \/ GetDBStart(p)
        \/ GetDBAfterHead(p)
        \/ GetDBAfterCreate(p)
        \/ GetDBAfterHead2(p)
        \/ UpdateDocStart(p)
        \/ UpdateDocAfterPut(p)
        \/ CreateDocStart(p)
        \/ CreateDocAfterPost(p)
        \/ GetDocStart(p)
        \/ GetDocAfterGet(p)
        \/ DeleteDocStart(p)
        \/ DeleteDocAfterGet(p)
        \/ DeleteDocAfterDelete(p)
        \/ DocExistsStart(p)
        \/ DocExistsAfterHead(p)
        \/ CreateDesignDocStart(p)
        \/ CreateDesignDocAfterGet(p)
        \/ CreateDesignDocAfterPut(p)
        \/ ViewStart(p)
        \/ ViewAfterPost(p)
        \/ Transport(p)
        \/ AttemptIntermediary(p)
        \/ AttemptNotFound(p)
        \/ Cancel(p)

SpecLibrary == InitLibrary /\ [][NextLibrary]_vars

\* The same with progress: the goroutine of a call is scheduled, a sleep
\* ends, and an attempt ends, by its answer or by its timeout
\* (requests.go:59), so a step that can be taken is taken.
FairLibrary == SpecLibrary /\ WF_vars(NextLibrary)

\* Two callers of one process, each running one operation on the one store:
\* both CreateDesignDoc for the same name with views of their own, both
\* GetDB(name, true) for the same name, or DeleteDoc of a document that the
\* other caller updates.
InitRace ==
    /\ dbs \in {{DocDB}, {}}
    /\ \E d \in {s \in StoredDocs : s = NoDoc \/ s.rev = 1},
          g \in {s \in StoredDesignDocs : s = NoDoc \/ s.rev = 1} :
          docs = [id \in StoreIds |->
                    CASE id = "x" -> d
                      [] id = DesignDocID(DesignDocName) -> g
                      [] OTHER -> NoDoc]
    /\ DocDB \notin dbs => docs = [id \in StoreIds |-> NoDoc]
    /\ store0 = [dbs |-> dbs, docs |-> docs]
    /\ codeToError \in ErrorTables
    /\ \E pair \in
          {<<[fn |-> "CreateDesignDoc", db |-> Handle, designDoc |-> DesignDocName,
              views |-> "m2", more |-> 0],
             [fn |-> "CreateDesignDoc", db |-> Handle, designDoc |-> DesignDocName,
              views |-> "m3", more |-> 0]>>,
           <<[fn |-> "GetDB", baseURL |-> BaseURL, name |-> OtherDB,
              createIfItDoesntExist |-> TRUE],
             [fn |-> "GetDB", baseURL |-> BaseURL, name |-> OtherDB,
              createIfItDoesntExist |-> TRUE]>>,
           <<[fn |-> "DeleteDoc", db |-> Handle, id |-> "x"],
             [fn |-> "UpdateDoc", db |-> Handle, id |-> "x",
              doc |-> MapValue(DocObj({"_id", "_rev", "key"}, "x", 1))]>>} :
          /\ op = [p \in Procs |-> IF p = "c1" THEN pair[1] ELSE pair[2]]
          /\ pc = [p \in Procs |-> IF p = "c1" THEN pair[1].fn ELSE pair[2].fn]
    /\ httpClient = [p \in Procs |-> NoClient]
    /\ result = [p \in Procs |-> NoResult]
    /\ calls = [p \in Procs |-> <<>>]
    /\ mr = [p \in Procs |-> IdleRequest]
    /\ hist = [p \in Procs |-> NoHist]
    /\ sent = [p \in Procs |-> {}]
    /\ ctxCancelled = [p \in Procs |-> FALSE]
    /\ ophist = [p \in Procs |-> NoOpHist]

\* The steps of the two callers interleave in every order; every request is
\* served by the store and answered.
NextRace ==
    \E p \in Procs :
        \/ GetDBStart(p)
        \/ GetDBAfterHead(p)
        \/ GetDBAfterCreate(p)
        \/ GetDBAfterHead2(p)
        \/ UpdateDocStart(p)
        \/ UpdateDocAfterPut(p)
        \/ DeleteDocStart(p)
        \/ DeleteDocAfterGet(p)
        \/ DeleteDocAfterDelete(p)
        \/ CreateDesignDocStart(p)
        \/ CreateDesignDocAfterGet(p)
        \/ CreateDesignDocAfterPut(p)
        \/ AttemptAnswered(p)

SpecRace == InitRace /\ [][NextRace]_vars

\* checkStructForJSONFields, checkParameter, isValidDBName and
\* addSlashIfNeeded, applied to one value after the other.
InitChecks ==
    /\ InitErrors
    /\ dbs = {}
    /\ docs = [id \in StoreIds |-> NoDoc]
    /\ store0 = [dbs |-> dbs, docs |-> docs]
    /\ \E o \in CheckOps : InitCallers(o, NoClient)

NextChecks ==
    \E p \in Procs : CheckShape(p) \/ CheckParameter(p) \/ CheckDBName(p) \/ AddSlash(p)

SpecChecks == InitChecks /\ [][NextChecks]_vars

\* Every specification of the module.
Init ==
    \/ InitTransport \/ InitGetDB \/ InitUpdateDoc \/ InitDocs \/ InitDesignDoc
    \/ InitView \/ InitLibrary \/ InitRace \/ InitChecks
Next ==
    \/ NextTransport \/ NextGetDB \/ NextUpdateDoc \/ NextDocs \/ NextDesignDoc
    \/ NextView \/ NextLibrary \/ NextRace \/ NextChecks
Spec == Init /\ [][Next]_vars

\* ------------------------------------------------------------------ claims

\* The most recent attempt of p's transport call received a response below 500.
GotBelow500(p) == hist[p].last.kind = "resp" /\ hist[p].last.code < 500

\* The most recent attempt of p's transport call failed in the send.
SendFailed(p) == hist[p].last.kind = "sendErr"

\* C1: as soon as an attempt of makeRequest receives a response whose status
\* is below 500, makeRequest has returned that status and body with a nil
\* error, and no attempt and no delay follows; a 404 received by the first
\* attempt is returned after that one attempt and no delay.
C1_Below500ReturnsAtOnce ==
    /\ [](\A p \in Procs : GotBelow500(p) =>
            /\ mr[p].pc = "done"
            /\ mr[p].ret = Ret(hist[p].last.code, hist[p].last.body, NoErr)
            /\ (hist[p].attempts = 1 => hist[p].delays = 0))
    /\ [][\A p \in Procs : GotBelow500(p) =>
            /\ hist'[p] = hist[p]
            /\ sent'[p] = sent[p]
            /\ mr'[p] = mr[p]]_vars

C1_Witness ==
    \E p \in Procs :
        /\ pc[p] = "done"
        /\ hist[p].attempts = 1
        /\ hist[p].last.kind = "resp"
        /\ hist[p].last.code = 404
        /\ mr[p].ret = Ret(404, EmptyBody, NoErr)
        /\ httpClient[p].maxRetries = MaxRetriesBound

\* C2: when every attempt of makeRequest received a 5xx response, makeRequest
\* made exactly maxRetries attempts and returned the status and body of the
\* last one with a nil error; it never makes more than maxRetries attempts.
C2_Exhausted5xxReturnsLast ==
    \A p \in Procs :
        /\ hist[p].attempts <= IF httpClient[p].maxRetries > 0
                               THEN httpClient[p].maxRetries ELSE 0
        /\ (mr[p].pc = "done" /\ hist[p].attempts >= 1
               /\ hist[p].n5xx = hist[p].attempts) =>
              /\ hist[p].attempts = httpClient[p].maxRetries
              /\ hist[p].last.code >= 500
              /\ mr[p].ret = Ret(hist[p].last.code, hist[p].last.body, NoErr)

C2_Witness ==
    \E p \in Procs :
        /\ pc[p] = "done"
        /\ httpClient[p].maxRetries = MaxRetriesBound
        /\ hist[p].attempts = MaxRetriesBound
        /\ hist[p].n5xx = MaxRetriesBound
        /\ mr[p].ret = Ret(503, ErrorBody("unavailable"), NoErr)

\* C3: when attempts 1..k-1 received 5xx responses and attempt k received a
\* response below 500, makeRequest returned the response of attempt k after
\* exactly k attempts (k <= maxRetries) and exactly k-1 delays.
C3_SuccessAfterRetries ==
    \A p \in Procs :
        (mr[p].pc = "done" /\ GotBelow500(p)
            /\ hist[p].n5xx = hist[p].attempts - 1) =>
           /\ mr[p].ret = Ret(hist[p].last.code, hist[p].last.body, NoErr)
           /\ hist[p].delays = hist[p].attempts - 1
           /\ hist[p].attempts <= httpClient[p].maxRetries

C3_Witness ==
    \E p \in Procs :
        /\ pc[p] = "done"
        /\ httpClient[p].maxRetries = 3
        /\ hist[p].attempts = 3
        /\ hist[p].n5xx = 2
        /\ hist[p].delays = 2
        /\ mr[p].ret = Ret(200, EmptyBody, NoErr)

\* C4: when the send of an attempt fails and the attempt is not the last, a
\* delay follows and then the loop goes on to another attempt; when it is
\* attempt number maxRetries, makeRequest has returned that error with status
\* 0 and no body, whatever status an earlier attempt left in respCode.
C4_SendErrorRetriedOrReturned ==
    \A p \in Procs : SendFailed(p) =>
        /\ hist[p].last.err # NoErr
        /\ hist[p].attempts < httpClient[p].maxRetries =>
              \/ mr[p].pc = "sleep" /\ hist[p].delays = hist[p].attempts - 1
              \/ /\ mr[p].pc = "loop"
                 /\ hist[p].delays = hist[p].attempts
                 /\ mr[p].i < httpClient[p].maxRetries
        /\ hist[p].attempts >= httpClient[p].maxRetries =>
              /\ hist[p].attempts = httpClient[p].maxRetries
              /\ mr[p].pc = "done"
              /\ mr[p].ret = Ret(0, NilBody, hist[p].last.err)

C4_Witness ==
    \E p \in Procs :
        /\ pc[p] = "done"
        /\ SendFailed(p)
        /\ hist[p].attempts = MaxRetriesBound
        /\ hist[p].n5xx >= 1
        /\ mr[p].respCode >= 500
        /\ mr[p].ret = Ret(0, NilBody, ErrNet)

\* C5: once the caller's context is cancelled during a transport call, the
\* transport begins no retry delay and makes no attempt after one that failed
\* with the context's error, and the attempt that ends the call returns the
\* context's error.
C5_CancelStopsRetries ==
    [][\A p \in Procs : ctxCancelled[p] =>
          /\ ~(mr[p].pc = "loop" /\ mr'[p].pc = "sleep")
          /\ (mr[p].pc = "loop" /\ hist[p].last.err = ErrCtx) =>
                hist'[p].attempts = hist[p].attempts
          /\ (mr[p].pc = "loop" /\ hist'[p].attempts > hist[p].attempts
                /\ mr'[p].pc = "done") => mr'[p].ret.err = ErrCtx]_vars

\* The operation made no PUT call and handed no PUT request to client.Do.
NoPut(p) ==
    /\ \A r \in sent[p] : r.method # "PUT"
    /\ \A k \in 1..Len(calls[p]) : calls[p][k].method # "PUT"

\* C6: GetDB(name, false) whose existence probe ended with status 404 has
\* returned errorDBNotFound and no handle, after the one HEAD call, and no
\* GetDB(name, false) ever sends a PUT.
C6_NotFoundWithoutCreate ==
    \A p \in Procs :
        (op[p].fn = "GetDB" /\ ~op[p].createIfItDoesntExist) =>
           /\ NoPut(p)
           /\ (pc[p] = "done" /\ mr[p].ret.err = NoErr /\ mr[p].ret.code = 404) =>
                 /\ result[p] = Failed(errorDBNotFound)
                 /\ calls[p] = <<[method |-> "HEAD", path |-> <<op[p].name>>]>>

C6_Witness ==
    \E p \in Procs :
        /\ op[p].fn = "GetDB"
        /\ ~op[p].createIfItDoesntExist
        /\ pc[p] = "done"
        /\ mr[p].ret = Ret(404, EmptyBody, NoErr)
        /\ result[p].err = errorDBNotFound
        /\ isValidDBName(op[p].name)

\* The three transport calls of a GetDB that creates the database.
ProbeCreateProbe(name) ==
    <<[method |-> "HEAD", path |-> <<name>>],
      [method |-> "PUT", path |-> <<name>>],
      [method |-> "HEAD", path |-> <<name>>]>>

\* C7: GetDB(name, true) for a validly named database that does not exist,
\* when every request is served and answered and the caller does not cancel,
\* has made exactly the calls probe, create, probe, in this order, with one
\* attempt each, and has returned a handle bound to name (which now exists).
C7_CreatesThenReprobes ==
    \A p \in Procs :
        (/\ op[p].fn = "GetDB"
         /\ op[p].createIfItDoesntExist
         /\ isValidDBName(op[p].name)
         /\ op[p].name \notin store0.dbs
         /\ pc[p] = "done"
         /\ ~ophist[p].faulted
         /\ ~ctxCancelled[p]) =>
           /\ calls[p] = ProbeCreateProbe(op[p].name)
           /\ ophist[p].attempts = 3
           /\ result[p] = Succeeded(Database(
                 NewCustomHTTPClient(op[p].baseURL, GetDBMaxRetries,
                                     GetDBRetryWait, GetDBTimeout), op[p].name))
           /\ op[p].name \in dbs

C7_Witness ==
    \E p \in Procs :
        /\ op[p].fn = "GetDB"
        /\ op[p].createIfItDoesntExist
        /\ op[p].name = OtherDB
        /\ OtherDB \notin store0.dbs
        /\ pc[p] = "done"
        /\ ~ophist[p].faulted
        /\ calls[p] = ProbeCreateProbe(OtherDB)
        /\ result[p].err = NilErr
        /\ result[p].val.dbName = OtherDB

UpdateDocPut(p) == [method |-> "PUT", path |-> <<op[p].db.dbName, op[p].id>>]

Rejected(p) == hist[p].last.kind = "resp" /\ hist[p].last.code = 409

\* C10: when the store's rejection of UpdateDoc's write (409, the supplied
\* _rev is not the current one) reaches the transport, makeRequest returns
\* it, UpdateDoc returns an error with that status and body, and nothing more
\* is sent; every request of the call carries the caller's document and so
\* its _rev; a rejecting store leaves the document as it is; and an UpdateDoc
\* one of whose attempts the store rejected never returns success.
C10_ConflictSurfaces ==
    /\ [](\A p \in Procs : op[p].fn = "UpdateDoc" =>
            /\ \A r \in sent[p] : r.body = JSONBody(op[p].doc.m)
            /\ Rejected(p) =>
                  /\ mr[p].pc = "done"
                  /\ mr[p].ret = Ret(409, ErrorBody("conflict"), NoErr)
                  /\ pc[p] = "done" =>
                        result[p] = Failed(Err("error updating doc", NoErr, 409,
                                               ErrorBody("conflict")))
            /\ (ophist[p].conflicted /\ pc[p] = "done") => result[p].err # NilErr)
    /\ [][\A p \in Procs : op[p].fn = "UpdateDoc" =>
            /\ Rejected(p) =>
                  /\ sent' = sent
                  /\ calls' = calls
                  /\ hist'[p] = hist[p]
                  /\ docs' = docs
            /\ (ophist'[p].attempts > ophist[p].attempts /\ ophist'[p].served = 409) =>
                  docs' = docs]_vars

C10_Witness ==
    \E p \in Procs :
        /\ op[p].fn = "UpdateDoc"
        /\ pc[p] = "done"
        /\ Rejected(p)
        /\ hist[p].attempts = 1
        /\ docs[op[p].id].rev >= 1
        /\ op[p].doc.m["_rev"] # docs[op[p].id].rev
        /\ docs = store0.docs
        /\ result[p].err.code = 409

\* The caller p read back, with GetDoc, the document its CreateDoc created.
ReadBack(p) == op[p].fn = "GetDoc" /\ "created" \in DOMAIN op[p]

\* C11: CreateDoc(d) that returned an id and a rev, followed by GetDoc of
\* that id into a map, with no write in between and every request of the read
\* served and answered: GetDoc returns no error and out holds every field of
\* d, _id equal to the returned id and _rev equal to the returned rev.
C11_CreateThenGetRoundTrip ==
    \A p \in Procs :
        (ReadBack(p) /\ pc[p] = "done" /\ ~ophist[p].faulted /\ ~ctxCancelled[p]) =>
           LET d == op[p].created.doc.m
               r == op[p].created.resp
           IN
           /\ result[p].err = NilErr
           /\ calls[p] = <<[method |-> "GET", path |-> <<op[p].db.dbName, r.ID>>]>>
           /\ result[p].val.kind = "map"
           /\ \A k \in DOMAIN d \ {"_id", "_rev"} :
                 k \in DOMAIN result[p].val.m /\ result[p].val.m[k] = d[k]
           /\ {"_id", "_rev"} \subseteq DOMAIN result[p].val.m
           /\ result[p].val.m["_id"] = r.ID
           /\ result[p].val.m["_rev"] = r.Rev
           /\ "_id" \in DOMAIN d => r.ID = d["_id"]

C11_Witness ==
    \E p \in Procs :
        /\ ReadBack(p)
        /\ pc[p] = "done"
        /\ ~ophist[p].faulted
        /\ DOMAIN op[p].created.doc.m = {"key"}
        /\ op[p].created.resp.ID = "u1"
        /\ result[p].err = NilErr
        /\ result[p].val.m = [_id |-> "u1", _rev |-> 1, key |-> "v2"]
        /\ store0.docs["x"].rev >= 1

\* The return ret of the transport is a failed read of a document: an error,
\* a status other than 200, or a body that cannot be decoded.
ReadFailed(ret) == ret.err # NoErr \/ ret.code # 200 \/ ret.body.raw # "json"

\* The read of p's DeleteDoc has returned, and DeleteDoc has not gone on yet.
DeleteDocRead(p) ==
    op[p].fn = "DeleteDoc" /\ pc[p] = "DeleteDoc.Get" /\ mr[p].pc = "done"

\* C12: when the read DeleteDoc performs first fails (transport error, status
\* other than 200, undecodable body), DeleteDoc's next step is its return: it
\* makes no further transport call and sends no DELETE, and the error it
\* returns wraps the read's error (the transport's error, the named not-found
\* error, the status and body, or the decoder's error).
C12_FailedReadAbortsDelete ==
    /\ [](\A p \in Procs :
            (op[p].fn = "DeleteDoc" /\ pc[p] = "done" /\ ReadFailed(mr[p].ret)
               /\ Len(calls[p]) = 1) =>
              LET r == mr[p].ret
                  e == result[p].err
              IN
              /\ \A q \in sent[p] : q.method # "DELETE"
              /\ result[p].val = NilValue
              /\ e.msg = "error getting doc to delete"
              /\ r.err # NoErr => e.wraps = r.err
              /\ (r.err = NoErr /\ r.code # 200) =>
                    IF r.code \in DOMAIN codeToError
                    THEN ErrorsIs(e, codeToError[r.code])
                    ELSE e.code = r.code /\ e.body = r.body
              /\ (r.err = NoErr /\ r.code = 200) => e.wraps = ErrSyntax)
    /\ [][\A p \in Procs : (DeleteDocRead(p) /\ ReadFailed(mr[p].ret)) =>
            /\ calls'[p] = calls[p]
            /\ sent'[p] = sent[p]
            /\ pc'[p] \in {"DeleteDoc.Get", "done"}]_vars

C12_Witness ==
    \E p \in Procs :
        /\ op[p].fn = "DeleteDoc"
        /\ pc[p] = "done"
        /\ calls[p] = <<[method |-> "GET", path |-> <<DocDB, "x">>]>>
        /\ mr[p].ret = Ret(200, GarbledBody, NoErr)
        /\ docs["x"].rev >= 1
        /\ result[p].err = Err("error getting doc to delete", ErrSyntax, 0, NilBody)

\* The final status of p's transport call: the status of its last attempt,
\* 0 when that attempt brought no response.
FinalStatus(p) == IF hist[p].last.kind = "resp" THEN hist[p].last.code ELSE 0

\* C13: DocExists returns (true, nil) when the final status is 200 or 304,
\* (false, nil) when it is 404, and (false, error) for every other outcome,
\* a 5xx left after the last retry included; (false, nil) is returned for no
\* outcome other than a 404.
C13_DocExistsMapsStatus ==
    \A p \in Procs :
        (op[p].fn = "DocExists" /\ pc[p] = "done") =>
           /\ FinalStatus(p) \in {200, 304} => result[p] = Succeeded(Bool(TRUE))
           /\ FinalStatus(p) = 404 => result[p] = Succeeded(Bool(FALSE))
           /\ FinalStatus(p) \notin {200, 304, 404} =>
                 /\ result[p].val = Bool(FALSE)
                 /\ result[p].err # NilErr
                 /\ FinalStatus(p) # 0 =>
                       /\ result[p].err.code = FinalStatus(p)
                       /\ result[p].err.body = hist[p].last.body
                 /\ FinalStatus(p) = 0 => result[p].err.wraps = hist[p].last.err
           /\ (result[p].val = Bool(FALSE) /\ result[p].err = NilErr) =>
                 FinalStatus(p) = 404

C13_Witness ==
    \E p \in Procs :
        /\ op[p].fn = "DocExists"
        /\ pc[p] = "done"
        /\ hist[p].attempts = GetDBMaxRetries
        /\ hist[p].n5xx = GetDBMaxRetries
        /\ docs["x"].rev >= 1
        /\ result[p].val = Bool(FALSE)
        /\ result[p].err.code = 503

\* The values the contract of GetDoc admits as out: a non-nil pointer to a
\* struct, or a pointer to a map[string]interface{}.
AdmittedTarget(out) ==
    /\ out.kind = "ptr"
    /\ \/ out.elem.kind = "struct" /\ ~out.isNil
       \/ /\ out.elem.kind = "map"
          /\ out.elem.key = "string"
          /\ out.elem.el = "interface{}"

\* C14: GetDoc with an out that is neither a non-nil pointer to a struct nor
\* a pointer to a map[string]interface{} makes no transport call, sends no
\* request and returns an error.
C14_OtherTargetsSendNothing ==
    \A p \in Procs :
        (op[p].fn = "GetDoc" /\ ~AdmittedTarget(op[p].out)) =>
           /\ calls[p] = <<>>
           /\ sent[p] = {}
           /\ pc[p] = "done" => result[p].err = ErrInvalidParam

\* C15: GetDoc whose transport call ended with status 400 or 404 returns the
\* named not-found error (errors.Is(err, ErrNotFound) holds), and for every
\* other status that is not 200 an error with the status code and the body.
C15_NotFoundFamilyIsNamed ==
    \A p \in Procs :
        (op[p].fn = "GetDoc" /\ pc[p] = "done" /\ Len(calls[p]) = 1
           /\ mr[p].ret.err = NoErr /\ mr[p].ret.code # 200) =>
           IF mr[p].ret.code \in {400, 404}
           THEN ErrorsIs(result[p].err, ErrNotFound)
           ELSE /\ ~ErrorsIs(result[p].err, ErrNotFound)
                /\ result[p].err.code = mr[p].ret.code
                /\ result[p].err.body = mr[p].ret.body

\* The PUT requests p's operation handed to client.Do.
Puts(p) == {r \in sent[p] : r.method = "PUT"}

\* C16: a CreateDesignDoc call on a handle whose database exists, with no
\* other writer, every request served and answered, the write answered as
\* created (not as merely accepted, 202) and no cancellation, succeeds: for a
\* design document that did not exist its PUT carried no _rev, for one that
\* existed its PUT carried the _rev its read returned, and the store holds
\* the new body at the next revision.  This holds for the first call and for
\* every later call of a sequence of calls for the same name.
C16_DesignDocUpsert ==
    \A p \in Procs :
        (/\ op[p].fn = "CreateDesignDoc"
         /\ pc[p] = "done"
         /\ op[p].db.dbName \in dbs
         /\ ~ophist[p].faulted
         /\ ~ctxCancelled[p]
         /\ FinalStatus(p) # 202) =>
           LET id == DesignDocID(op[p].designDoc) IN
           /\ result[p] = Succeeded(NilValue)
           /\ calls[p] = <<[method |-> "GET", path |-> <<op[p].db.dbName, id>>],
                           [method |-> "PUT", path |-> <<op[p].db.dbName, id>>]>>
           /\ ophist[p].attempts = 2
           /\ docs[id].rev >= 1
           /\ \A r \in Puts(p) :
                 /\ r.body.obj["_id"] = id
                 /\ docs[id].rev = 1 => "_rev" \notin DOMAIN r.body.obj
                 /\ docs[id].rev > 1 =>
                       /\ "_rev" \in DOMAIN r.body.obj
                       /\ r.body.obj["_rev"] = docs[id].rev - 1
                 /\ docs[id].obj = Fields(r.body.obj)
           /\ Puts(p) # {}

\* The last call of a sequence: the document was not there before the first
\* call, and every later call found what the call before it left.
C16_Witness ==
    \E p \in Procs :
        /\ op[p].fn = "CreateDesignDoc"
        /\ pc[p] = "done"
        /\ op[p].more = 0
        /\ ~ophist[p].faulted
        /\ FinalStatus(p) = 201
        /\ store0.docs[DesignDocID(DesignDocName)].rev = 0
        /\ docs[DesignDocID(DesignDocName)].rev = MaxMoreCalls + 1
        /\ result[p].err = NilErr
        /\ \E r \in Puts(p) : r.body.obj["_rev"] = MaxMoreCalls

\* A parameter value that is its type's zero value.
IsZeroValue(v) ==
    CASE v.kind = "int" -> v.n = 0
      [] v.kind = "bool" -> v.b = FALSE
      [] OTHER -> FALSE

\* C17: no request of a View call carries a parameter whose value is zero or
\* false, and a View call with a nil or empty parameter set sends a request
\* that carries no parameter.
C17_ZeroParamsAreOmitted ==
    \A p \in Procs :
        op[p].fn = "View" =>
           \A r \in sent[p] :
              /\ \A k \in DOMAIN r.body.obj : ~IsZeroValue(r.body.obj[k])
              /\ (op[p].params = NilMap \/ op[p].params = MapValue(<<>>)) =>
                     DOMAIN r.body.obj = {}

\* The targets the contract of checkStructForJSONFields admits.
Conforming(resultVar) ==
    /\ resultVar.kind = "ptr"
    /\ resultVar.elem.kind = "struct"
    /\ "Rows" \in DOMAIN resultVar.elem.fields
    /\ LET rows == resultVar.elem.fields["Rows"] IN
       /\ rows.type.kind = "slice"
       /\ rows.tag = "rows"
       /\ rows.type.elem.kind = "struct"
       /\ LET rs == rows.type.elem.fields IN
          /\ "ID" \in DOMAIN rs /\ rs["ID"].tag = "id"
          /\ "Key" \in DOMAIN rs /\ rs["Key"].tag = "key"
          /\ "Doc" \in DOMAIN rs => rs["Doc"].tag = "doc"

\* C18: checkStructForJSONFields returns, and it returns no error exactly
\* for a conforming target: every other target (no Rows, Rows not a slice or
\* not tagged "rows", a row type without ID or Key or their tags, a Doc with
\* another tag) gets an error.
C18_ShapeValidator ==
    \A p \in Procs :
        (op[p].fn = "checkStructForJSONFields" /\ pc[p] = "done") =>
           /\ ~result[p].panic
           /\ result[p].err = NilErr <=> Conforming(op[p].resultVar)

\* C19: checkParameter on a struct returns no error when its fields carry
\* the JSON tags _id and _rev, ErrMissingID when no field is tagged _id, and
\* ErrMissingRev when a field is tagged _id and none is tagged _rev.
C19_StructTagsDecide ==
    \A p \in Procs :
        (op[p].fn = "checkParameter" /\ op[p].param.kind = "struct" /\ pc[p] = "done") =>
           LET tags == op[p].param.tags IN
           /\ ~result[p].panic
           /\ {"_id", "_rev"} \subseteq tags => result[p].err = NilErr
           /\ "_id" \notin tags => result[p].err.msg = ErrMissingID
           /\ ("_id" \in tags /\ "_rev" \notin tags) => result[p].err.msg = ErrMissingRev

\* The value a finished call checked with checkParameter: the argument of
\* checkParameter itself, or the document of UpdateDoc.
Checked(p) == IF op[p].fn = "UpdateDoc" THEN op[p].doc ELSE op[p].param

\* C20: for an input that is neither a map[string]interface{} nor a struct
\* (nil, a number, a map of another type) checkParameter returns the
\* "unsupported type" error, UpdateDoc returns an error that wraps it, and
\* neither panics.
C20_OtherInputsAreUnsupported ==
    \A p \in Procs :
        (/\ op[p].fn \in {"UpdateDoc", "checkParameter"}
         /\ pc[p] = "done"
         /\ Checked(p).kind \notin {"map", "nilmap", "struct"}) =>
           /\ ~result[p].panic
           /\ IF op[p].fn = "UpdateDoc"
              THEN result[p].err.wraps = ErrUnsupportedType
              ELSE result[p].err.msg = ErrUnsupportedType

\* C21: a View call whose resultVar is a pointer to the library's ViewResponse
\* does not panic in the pre-flight check, is not rejected by it, and, when
\* its POST was answered 200, returns no error.
C21_ViewResponseIsUsable ==
    \A p \in Procs :
        (op[p].fn = "View" /\ op[p].resultVar = PtrTo(ViewResponse, FALSE)
           /\ pc[p] = "done") =>
           /\ ~result[p].panic
           /\ result[p].err.msg # "error checking struct for JSON fields"
           /\ Len(calls[p]) = 1
           /\ (mr[p].ret.err = NoErr /\ mr[p].ret.code = 200) => result[p].err = NilErr

\* C22: isValidDBName(name) is true exactly when name is not empty, its first
\* character is a lowercase letter and every other character is a lowercase
\* letter, a digit or one of _ $ ( ) + - /; so it is false for the empty name
\* and for a name that starts with an uppercase letter, a digit or an
\* underscore.
C22_ValidNames ==
    \A p \in Procs :
        (op[p].fn = "isValidDBName" /\ pc[p] = "done") =>
           LET name == op[p].name
               rest == {name[k] : k \in 2..Len(name)}
               allowed == Lower \cup Digits \cup {"_", "$", "(", ")", "+", "-", "/"}
           IN
           /\ result[p].err = NilErr /\ ~result[p].panic
           /\ result[p].val.b <=>
                 (name # <<>> /\ name[1] \in Lower /\ rest \subseteq allowed)
           /\ (name = <<>> \/ name[1] \in {"A", "0", "9", "_"}) => ~result[p].val.b

\* A name that ends with a special character was found valid.
C22_Witness ==
    \E p \in Procs :
        /\ op[p].fn = "isValidDBName" /\ pc[p] = "done"
        /\ op[p].name = <<"a", "/">>
        /\ result[p].val = Bool(TRUE)

\* The transport GetDB makes for a call (couch_service.go:43).
GetDBClient(o) ==
    NewCustomHTTPClient(o.baseURL, GetDBMaxRetries, GetDBRetryWait, GetDBTimeout)

\* C23: no operation changes the state of the handle it runs on.  At every
\* moment of every operation the handle is the one that was constructed
\* (dbName and the transport's baseURL, maxRetries, retryWait and timeout),
\* the transport the operation runs on is the handle's, with the same
\* fields, and no step changes the status-to-error table; the handle GetDB
\* returns has the fields GetDB constructed it with.
C23_HandleUnchanged ==
    /\ [](\A p \in Procs :
            /\ "db" \in DOMAIN op[p] =>
                  /\ op[p].db = Handle
                  /\ httpClient[p] \in {NoClient, op[p].db.httpClient}
            /\ op[p].fn = "GetDB" =>
                  /\ httpClient[p] \in {NoClient, GetDBClient(op[p])}
                  /\ (pc[p] = "done" /\ result[p].err = NilErr) =>
                        result[p].val = Database(GetDBClient(op[p]), op[p].name))
    /\ [][/\ codeToError' = codeToError
          /\ \A p \in Procs :
                "db" \in DOMAIN op[p] =>
                   /\ op'[p].db = op[p].db
                   /\ httpClient[p] # NoClient => httpClient'[p] = httpClient[p]]_vars

\* A DeleteDoc call on the handle made both of its transport calls, the first
\* of them after a retry, and succeeded.
C23_Witness ==
    \E p \in Procs :
        /\ op[p].fn = "DeleteDoc" /\ pc[p] = "done"
        /\ Len(calls[p]) = 2
        /\ ophist[p].faulted
        /\ result[p].err = NilErr

\* The transport call of p's operation has returned and the operation has
\* not gone on yet.
CallReturned(p) == pc[p] \notin {"none", "done"} /\ mr[p].pc = "done"

\* A transport call that failed: it returned an error, or ended with a status
\* that is neither a success nor the not-found the library recognises (404,
\* or the status the table names).
CallFailed(ret) ==
    \/ ret.err # NoErr
    \/ ret.code \notin {200, 201, 202, 304, 404} \cup DOMAIN codeToError

\* C24: when a transport call made inside an operation has failed, the
\* operation's next step is its return, with an error that carries the cause
\* (the transport's error, or the status and body); so no operation goes on
\* to report success after one of its own requests failed.
C24_FailuresPropagate ==
    [][\A p \in Procs :
          (CallReturned(p) /\ CallFailed(mr[p].ret) /\ pc'[p] # pc[p]) =>
             /\ pc'[p] = "done"
             /\ ~result'[p].panic
             /\ result'[p].err # NilErr
             /\ IF mr[p].ret.err # NoErr
                THEN result'[p].err.wraps = mr[p].ret.err
                ELSE /\ result'[p].err.code = mr[p].ret.code
                     /\ result'[p].err.body = mr[p].ret.body]_vars

\* C25: a transport call whose attempt failed at the network level (the send
\* failed, or the read of the response body failed) goes on to another
\* attempt while attempts remain: it returns an error only when the failed
\* attempt was its last, the maxRetries-th.
C25_NetworkFailuresAreRetried ==
    \A p \in Procs :
        (mr[p].pc = "done" /\ hist[p].last.kind \in {"sendErr", "readErr"}) =>
           /\ hist[p].attempts = httpClient[p].maxRetries
           /\ mr[p].ret.err = hist[p].last.err

\* The transport calls an operation makes, in their order, when none of them
\* ends it early.
Script(o) ==
    CASE o.fn = "GetDB" -> <<"HEAD", "PUT", "HEAD">>
      [] o.fn = "GetDoc" -> <<"GET">>
      [] o.fn = "CreateDoc" -> <<"POST">>
      [] o.fn = "UpdateDoc" -> <<"PUT">>
      [] o.fn = "View" -> <<"POST">>
      [] o.fn = "DocExists" -> <<"HEAD">>
      [] o.fn = "DeleteDoc" -> <<"GET", "DELETE">>
      [] o.fn = "CreateDesignDoc" -> <<"GET", "PUT">>
      [] OTHER -> <<>>

\* C26: the transport calls of an operation are a prefix of its script, for
\* every sequence of responses: one call for GetDoc, CreateDoc, UpdateDoc,
\* View and DocExists, at most two for DeleteDoc and CreateDesignDoc, at most
\* three for GetDB (probe, create, re-probe), none of them made again; GetDB
\* whose re-probe ends with 404 returns the database-not-found error; and
\* every operation comes to its end.
C26_BoundedCalls ==
    /\ [](\A p \in Procs :
            /\ Len(calls[p]) <= Len(Script(op[p]))
            /\ \A k \in 1..Len(calls[p]) : calls[p][k].method = Script(op[p])[k]
            /\ (op[p].fn = "GetDB" /\ pc[p] = "done" /\ Len(calls[p]) = 3
                  /\ mr[p].ret.err = NoErr /\ mr[p].ret.code = 404) =>
                  result[p] = Failed(errorDBNotFound))
    /\ <>(\A p \in Procs : pc[p] \in {"none", "done"})

\* GetDB made its three calls, the re-probe ended with 404 although the
\* create had been accepted, and GetDB returned the not-found error.
C26_Witness ==
    \E p \in Procs :
        /\ op[p].fn = "GetDB" /\ pc[p] = "done"
        /\ Len(calls[p]) = 3
        /\ mr[p].ret.code = 404
        /\ result[p] = Failed(errorDBNotFound)

\* C27 as the spec states it: every public operation makes at most
\* maxAttempts HTTP attempts in total.
C27_AttemptsOfAnOperation ==
    \A p \in Procs :
        op[p].fn \in {"GetDB", "CreateDoc", "GetDoc", "UpdateDoc", "DeleteDoc",
                      "CreateDesignDoc", "View", "DocExists"} =>
           ophist[p].attempts <= GetDBMaxRetries

\* C27 as amended: every transport call of a public operation makes at most
\* maxAttempts HTTP attempts and at most one retry delay per attempt, and the
\* operation makes at most maxAttempts attempts for each transport call of
\* its script: maxAttempts for GetDoc, CreateDoc, UpdateDoc, View and
\* DocExists, twice that for DeleteDoc and CreateDesignDoc, three times that
\* for GetDB.
C27_AttemptsPerCall ==
    \A p \in Procs :
        op[p].fn \in {"GetDB", "CreateDoc", "GetDoc", "UpdateDoc", "DeleteDoc",
                      "CreateDesignDoc", "View", "DocExists"} =>
           /\ hist[p].attempts <= GetDBMaxRetries
           /\ hist[p].delays <= hist[p].attempts
           /\ ophist[p].attempts <= Len(calls[p]) * GetDBMaxRetries
           /\ ophist[p].attempts <= Len(Script(op[p])) * GetDBMaxRetries

\* GetDB made its three calls with maxAttempts attempts each.
C27_Witness ==
    \E p \in Procs :
        /\ op[p].fn = "GetDB" /\ pc[p] = "done"
        /\ Len(calls[p]) = 3
        /\ ophist[p].attempts = 3 * GetDBMaxRetries

\* An existence probe of p's GetDB has ended with a status.
ProbeAnswered(p) ==
    /\ op[p].fn = "GetDB"
    /\ pc[p] \in {"GetDB.Head", "GetDB.Head2"}
    /\ mr[p].pc = "done"
    /\ mr[p].ret.err = NoErr

CreateDocAnswered(p) ==
    /\ op[p].fn = "CreateDoc"
    /\ pc[p] = "done"
    /\ mr[p].ret.err = NoErr

\* What CreateDoc returns for a final status it does not take: an error that
\* carries the status and the body, and no result.
CreateDocRefused(p) ==
    result[p] = Failed(Err("error creating doc", NoErr, mr[p].ret.code, mr[p].ret.body))

\* CreateDoc never returns both a result and an error, and a result is the
\* id/rev/ok triple parsed from the final body.
CreateDocEitherOr(p) ==
    (op[p].fn = "CreateDoc" /\ pc[p] = "done") =>
       /\ ~(result[p].val # NilValue /\ result[p].err # NilErr)
       /\ result[p].val # NilValue =>
             /\ mr[p].ret.err = NoErr
             /\ mr[p].ret.body.raw = "json"
             /\ result[p].val = CreateDocResponseType(mr[p].ret.body.obj)

DeleteCall(p, rev) ==
    [method |-> "DELETE", path |-> <<op[p].db.dbName, op[p].id, "?rev=", rev>>]

\* C30: when the read of DeleteDoc succeeded, the step DeleteDoc takes next
\* is the one DELETE call for {db}/{id} whose rev is the _rev of the body
\* that read returned; DeleteDoc makes no call after its DELETE, and it
\* returns no error exactly when the final status of the DELETE is 200 or
\* 202.
C30_DeleteOnceWithReadRev ==
    /\ [](\A p \in Procs : op[p].fn = "DeleteDoc" =>
            /\ Len(calls[p]) <= 2
            /\ \A k \in 1..Len(calls[p]) : calls[p][k].method = "DELETE" => k = 2
            /\ (pc[p] = "done" /\ Len(calls[p]) = 2) =>
                  /\ result[p].val = NilValue
                  /\ result[p].err = NilErr <=> FinalStatus(p) \in {200, 202})
    /\ [][\A p \in Procs :
            (DeleteDocRead(p) /\ ~ReadFailed(mr[p].ret) /\ pc'[p] # pc[p]) =>
               /\ pc'[p] = "DeleteDoc.Delete"
               /\ "_rev" \in DOMAIN mr[p].ret.body.obj =>
                     calls'[p] = Append(calls[p], DeleteCall(p, mr[p].ret.body.obj["_rev"]))]_vars

C30_Witness ==
    \E p \in Procs :
        /\ op[p].fn = "DeleteDoc" /\ pc[p] = "done"
        /\ store0.docs["x"].rev = 1
        /\ calls[p] = <<[method |-> "GET", path |-> <<DocDB, "x">>], DeleteCall(p, 1)>>
        /\ FinalStatus(p) = 202
        /\ result[p] = Succeeded(NilValue)
        /\ docs["x"] = NoDoc

\* resultVar points to a struct whose Rows is a slice, tagged "rows", of a
\* struct type; RowFields is the fields of that row type.
HasRowStruct(resultVar) ==
    /\ resultVar.kind = "ptr"
    /\ resultVar.elem.kind = "struct"
    /\ "Rows" \in DOMAIN resultVar.elem.fields
    /\ resultVar.elem.fields["Rows"].type.kind = "slice"
    /\ resultVar.elem.fields["Rows"].tag = "rows"
    /\ resultVar.elem.fields["Rows"].type.elem.kind = "struct"
RowFields(resultVar) == resultVar.elem.fields["Rows"].type.elem.fields

\* The row type of resultVar lacks the member n and has the other of ID and
\* Key, rightly tagged.
LacksOnly(resultVar, n) ==
    /\ HasRowStruct(resultVar)
    /\ LET rs == RowFields(resultVar)
           other == IF n = "ID" THEN "Key" ELSE "ID"
       IN
       /\ n \notin DOMAIN rs
       /\ other \in DOMAIN rs
       /\ rs[other].tag = (IF other = "ID" THEN "id" ELSE "key")

\* p's call of checkStructForJSONFields by itself has returned.
ShapeChecked(p) ==
    op[p].fn = "checkStructForJSONFields" /\ pc[p] = "done" /\ ~result[p].panic

\* C31 as the spec states it: the error for a row type that lacks ID differs
\* from the error for a row type that lacks Key.
C31_DistinctErrorPerMember ==
    \A p \in Procs :
        (ShapeChecked(p) /\ LacksOnly(op[p].resultVar, "ID")) =>
           /\ result[p].err # NilErr
           /\ \A t \in ShapeTargets :
                 LacksOnly(t, "Key") => result[p].err.msg # checkStructForJSONFields(t)

\* C31, amended: a row type that lacks ID and a row type that lacks Key get
\* the same error, the one that names both members; it differs from the
\* error for Rows and from the error for the tag of Doc, and it does not tell
\* which member is missing.
C31_OneErrorForIDAndKey ==
    \A p \in Procs :
        (/\ ShapeChecked(p)
         /\ HasRowStruct(op[p].resultVar)
         /\ {"ID", "Key"} \ DOMAIN RowFields(op[p].resultVar) # {}) =>
           /\ result[p].err.msg = ErrRowFields
           /\ result[p].err.msg \notin {ErrRows, ErrDocTag}
           /\ result[p].val = NilValue

C31_Witness ==
    \E p \in Procs :
        /\ ShapeChecked(p)
        /\ LacksOnly(op[p].resultVar, "Key")
        /\ "Doc" \in DOMAIN RowFields(op[p].resultVar)
        /\ result[p].err.msg = ErrRowFields

\* The revisions the PUT requests of caller p carried (0: none).
PutRevs(p) ==
    {IF r.body.raw = "json" /\ "_rev" \in DOMAIN r.body.obj THEN r.body.obj["_rev"] ELSE 0 :
        r \in {q \in sent[p] : q.method = "PUT"}}

\* Both callers ran CreateDesignDoc for the same name to its end, every
\* request served and answered, and both reads came before both writes: both
\* PUTs carry the revision the design document had at the start.
DesignDocRace ==
    /\ \A p \in Procs :
          /\ op[p].fn = "CreateDesignDoc"
          /\ pc[p] = "done"
          /\ ~ophist[p].faulted
          /\ PutRevs(p) = {store0.docs[DesignDocID(op[p].designDoc)].rev}
    /\ DocDB \in store0.dbs

\* C32: after two concurrent CreateDesignDoc for the same name whose reads
\* both came before both writes, the store has accepted exactly one of the
\* two PUTs (the document is one revision on and holds the views of one
\* caller), the other caller's PUT was answered 409 and that caller has an
\* error with that status, and the two callers have not both returned nil.
C32_OneUpsertWins ==
    DesignDocRace =>
       LET id == DesignDocID(DesignDocName)
           won == {p \in Procs : docs[id].obj.views = op[p].views}
       IN
       /\ docs[id].rev = store0.docs[id].rev + 1
       /\ Cardinality(won) = 1
       /\ \A p \in Procs \ won :
             /\ result[p].err # NilErr
             /\ result[p].err.code = 409
             /\ ophist[p].conflicted
       /\ \E p \in Procs : result[p].err # NilErr

C32_Witness ==
    /\ DesignDocRace
    /\ store0.docs[DesignDocID(DesignDocName)].rev = 1
    /\ docs[DesignDocID(DesignDocName)].obj.views = "m3"
    /\ result["c2"].err = NilErr
    /\ result["c1"].err.code = 409

\* Caller p ran DeleteDoc to its end, caller q wrote the document with
\* UpdateDoc, and the write came between DeleteDoc's read and its DELETE: the
\* DELETE carries the revision the document had at the start, and the store
\* applied q's write of that revision.
WrittenBetween(p, q) ==
    /\ op[p].fn = "DeleteDoc" /\ pc[p] = "done"
    /\ op[q].fn = "UpdateDoc" /\ pc[q] = "done"
    /\ result[q].err = NilErr
    /\ store0.docs[op[p].id].rev >= 1
    /\ Len(calls[p]) = 2
    /\ calls[p][2] = DeleteCall(p, store0.docs[op[p].id].rev)

\* C33: when another caller's write came between DeleteDoc's read and its
\* DELETE, the DELETE was answered 409, DeleteDoc has returned an error with
\* that status after its one GET and its one DELETE, one request each, and
\* the document stands at the revision the other caller wrote; and no step
\* removes a document other than by the DELETE of a DeleteDoc whose DELETE
\* carries the revision that is removed.
C33_StaleDeleteIsRejected ==
    /\ [](\A p, q \in Procs : WrittenBetween(p, q) =>
            /\ result[p].err # NilErr
            /\ result[p].err.code = 409
            /\ calls[p][1] = [method |-> "GET", path |-> <<op[p].db.dbName, op[p].id>>]
            /\ Cardinality(sent[p]) = 2
            /\ ophist[p].attempts = 2
            /\ docs[op[p].id].rev = store0.docs[op[p].id].rev + 1)
    /\ [][\A id \in DocIds : (docs[id].rev # 0 /\ docs'[id].rev = 0) =>
            \E p \in Procs :
               /\ op[p].fn = "DeleteDoc" /\ op[p].id = id
               /\ pc[p] = "DeleteDoc.Delete"
               /\ calls[p][2] = DeleteCall(p, docs[id].rev)]_vars

C33_Witness ==
    /\ WrittenBetween("c1", "c2")
    /\ result["c1"].err.code = 409
    /\ docs["x"].rev = 2
    /\ docs["x"].obj = [key |-> "v2"]

\* C34: when two callers have run GetDB(name, true) for the same validly
\* named database that did not exist, every request served and answered,
\* both have returned a handle bound to name and no error.
C34_BothGetHandles ==
    (/\ \A p \in Procs :
           /\ op[p].fn = "GetDB"
           /\ op[p].createIfItDoesntExist
           /\ isValidDBName(op[p].name)
           /\ op[p].name \notin store0.dbs
           /\ op[p].name = op["c1"].name
           /\ pc[p] = "done"
           /\ ~ophist[p].faulted) =>
       \A p \in Procs :
           /\ result[p].err = NilErr
           /\ result[p].val # NilValue
           /\ result[p].val.dbName = op[p].name

\* The documents the store holds that it did not hold at the start.
CreatedDocs == {id \in StoreIds : docs[id].rev # 0 /\ store0.docs[id].rev = 0}

\* C35: one CreateDoc call, whatever its attempts met (a lost response, a
\* timeout, a 5xx), has created at most one document in the store.
C35_CreateDocCreatesOnce ==
    \A p \in Procs : op[p].fn = "CreateDoc" => Cardinality(CreatedDocs) <= 1

\* C36: when UpdateDoc has returned an error, the store holds what it held
\* before the call: no write that the store applied is reported as a failure.
C36_FailedUpdateLeavesDoc ==
    \A p \in Procs :
        (op[p].fn = "UpdateDoc" /\ pc[p] = "done" /\ result[p].err # NilErr) =>
           docs = store0.docs

\* C37: when makeRequest has returned after one attempt or more, it has
\* performed one delay less than attempts: a delay between two attempts, and
\* none after the last.
C37_DelaysOnlyBetweenAttempts ==
    \A p \in Procs :
        (mr[p].pc = "done" /\ hist[p].attempts >= 1) =>
           hist[p].delays = hist[p].attempts - 1

\* C38: what makeRequest returns with a nil error, on a transport of any
\* maxRetries, is the status and body that one of its attempts received; it
\* is never status 0.
C38_NilErrorCarriesAResponse ==
    \A p \in Procs :
        (mr[p].pc = "done" /\ mr[p].ret.err = NoErr) =>
           /\ mr[p].ret.code # 0
           /\ hist[p].last.kind = "resp"
           /\ mr[p].ret.code = hist[p].last.code
           /\ mr[p].ret.body = hist[p].last.body

====
